---- MODULE Spec2Model ----
(***************************************************************************)
(* A model of relaxer's trace enumerator (relaxer/logical/iterator.py,     *)
(* DFSTraceIterator) over the TASystem interface                            *)
(* (relaxer/tracing/system.py, relaxer/ta.py), and of the Pareto set        *)
(* (relaxer/optimization/pareto.py).                                        *)
(*                                                                         *)
(* Python values are represented as follows.                                *)
(*   Variable          <<"delta", j>> or <<"relax", i>>                     *)
(*   Summand           [coefficient, var]                                   *)
(*   Sum               the tuple of its summands (the iterator only builds  *)
(*                     sums in one order, so tuple equality and the         *)
(*                     multiset equality of Sum.__eq__ coincide on them)    *)
(*   Inequality        [left, symbol, right]                                *)
(*   Formula           [op |-> "And"/"Or", args], [op |-> "Not", arg],      *)
(*                     [op |-> "Const", value]; an Inequality is an atom    *)
(*   Optional[int]     the empty set (None) or a singleton                  *)
(*   Dict[Clock, List] a function on Clocks; a missing key and an empty     *)
(*                     list are read alike by _substitute_clock             *)
(***************************************************************************)
EXTENDS Integers, Sequences, FiniteSets, Bags, TLC

VARIABLES
    system,            \* the TASystem handed to the iterator
    depth,             \* DFSTraceIterator._depth
    outcome,           \* how the last call on the iterator ended
    symbolic_trace,    \* DFSTraceIterator._symbolic_trace
    clock_resets,      \* DFSTraceIterator._clock_resets
    trace_ineqs,       \* DFSTraceIterator._trace_ineqs
    property_formulas, \* DFSTraceIterator._property_formulas
    transition_stack,  \* DFSTraceIterator._transition_stack
    bundle,            \* the TimedRelaxedTraceConstraints returned last
    emitted,           \* history: popped depth and transition path of each bundle
    errored,           \* history: some call of this iteration raised RuntimeError
    points,            \* ParetoSet._points
    last_add,          \* history: the last ParetoSet.add call
    offered,           \* history: the points handed to ParetoSet.add, in call order
    in_formula,        \* the pysmt formula handed to a transformer
    transformer,       \* the transformer class transform was called on
    out_formula,       \* what transform returned, or that it raised
    rip_input,         \* the CNF handed to propagate_real_intervals_cnf
    rip_output,        \* what propagate_real_intervals_cnf returned or raised
    dnf_terms,         \* DNFFormula.terms handed to maximize_relaxation
    optimizer,         \* the optimizer in use
    optima,            \* what maximize_relaxation returned
    handler,           \* the DumpLocationHandler class in use
    dump_locations,    \* DirectoryLocationHandler._dump_locations, by name
    requested,         \* history: the names create_dump_location was called with
    create_result,     \* history: whether the last create_dump_location raised
    qe_state,          \* where QuantifierEliminator.process stands
    qe_width,          \* QuantifierEliminator._width, empty while the attribute is not set
    qe_stats,          \* what reading QuantifierEliminator.stats gave
    conjunction_in,    \* the pysmt conjunction handed to pysmt_conjunction_to_inequalities
    inequalities_out,  \* what pysmt_conjunction_to_inequalities returned or raised
    lra_object,        \* the Inequality whose text, and whose left Sum's text, is parsed back
    round_trip,        \* what from_string gave for the printed text
    oracle_result,     \* the quantifier-free formula qf the oracle returned for a bundle
    accumulated,       \* the set formulas of process after formulas.add, or what _post_process raised
    held_interval,     \* the Interval object: << >> before construction, else its bounds
    tighten_call,      \* the last tighten call: which method, its argument, the bounds before
    ext,               \* poly.get_generators(): the rows of the double description, in the order cdd reports them
    ext_adjacency,     \* poly.get_adjacency(): for every row the indices of the rows adjacent to it
    grid_points,       \* Optimizer.grid_points
    sampled,           \* << >>, or the calls of output.add made for the term and the output they leave
    to_A_b_args,       \* the inequalities and the strict_epsilon _to_A_b is called with
    A_b                \* << >>, or the pair A, b the call returned

vars == <<system, depth, outcome, symbolic_trace, clock_resets, trace_ineqs,
          property_formulas, transition_stack, bundle, emitted, errored,
          points, last_add, offered, in_formula, transformer, out_formula,
          rip_input, rip_output,
          dnf_terms, optimizer, optima,
          handler, dump_locations, requested, create_result,
          qe_state, qe_width, qe_stats,
          conjunction_in, inequalities_out,
          lra_object, round_trip,
          oracle_result, accumulated,
          held_interval, tighten_call,
          ext, ext_adjacency, grid_points, sampled,
          to_A_b_args, A_b>>

iterVars == <<system, depth, outcome, symbolic_trace, clock_resets, trace_ineqs,
              property_formulas, transition_stack, bundle, emitted, errored>>

paretoVars == <<points, last_add, offered>>

normalFormVars == <<in_formula, transformer, out_formula>>

ripVars == <<rip_input, rip_output>>

optimizerVars == <<dnf_terms, optimizer, optima>>

dumpVars == <<handler, dump_locations, requested, create_result>>

qeVars == <<qe_state, qe_width, qe_stats>>

conversionVars == <<conjunction_in, inequalities_out>>

printingVars == <<lra_object, round_trip>>

postProcessVars == <<oracle_result, accumulated>>

intervalVars == <<held_interval, tighten_call>>

samplingVars == <<ext, ext_adjacency, grid_points, sampled>>

toAbVars == <<to_A_b_args, A_b>>

\* what an operation of one component leaves alone
besidesIter == <<paretoVars, normalFormVars, ripVars, optimizerVars, dumpVars, qeVars, conversionVars, printingVars, postProcessVars, intervalVars, samplingVars, toAbVars>>

besidesPareto == <<iterVars, normalFormVars, ripVars, optimizerVars, dumpVars, qeVars, conversionVars, printingVars, postProcessVars, intervalVars, samplingVars, toAbVars>>

besidesNormalForm == <<iterVars, paretoVars, ripVars, optimizerVars, dumpVars, qeVars, conversionVars, printingVars, postProcessVars, intervalVars, samplingVars, toAbVars>>

besidesRip == <<iterVars, paretoVars, normalFormVars, optimizerVars, dumpVars, qeVars, conversionVars, printingVars, postProcessVars, intervalVars, samplingVars, toAbVars>>

besidesOptimizer == <<iterVars, paretoVars, normalFormVars, ripVars, dumpVars, qeVars, conversionVars, printingVars, postProcessVars, intervalVars, samplingVars, toAbVars>>

besidesDump == <<iterVars, paretoVars, normalFormVars, ripVars, optimizerVars, qeVars, conversionVars, printingVars, postProcessVars, intervalVars, samplingVars, toAbVars>>

besidesQE == <<iterVars, paretoVars, normalFormVars, ripVars, optimizerVars, dumpVars, conversionVars, printingVars, postProcessVars, intervalVars, samplingVars, toAbVars>>

besidesIterAndQE == <<paretoVars, normalFormVars, ripVars, optimizerVars, dumpVars, conversionVars, printingVars, postProcessVars, intervalVars, samplingVars, toAbVars>>

besidesConversion == <<iterVars, paretoVars, normalFormVars, ripVars, optimizerVars, dumpVars, qeVars, printingVars, postProcessVars, intervalVars, samplingVars, toAbVars>>

besidesPrinting == <<iterVars, paretoVars, normalFormVars, ripVars, optimizerVars, dumpVars, qeVars, conversionVars, postProcessVars, intervalVars, samplingVars, toAbVars>>

besidesPostProcess == <<iterVars, paretoVars, normalFormVars, ripVars, optimizerVars, dumpVars, qeVars, conversionVars, printingVars, intervalVars, samplingVars, toAbVars>>

besidesInterval == <<iterVars, paretoVars, normalFormVars, ripVars, optimizerVars, dumpVars, qeVars, conversionVars, printingVars, postProcessVars, samplingVars, toAbVars>>

besidesSampling == <<iterVars, paretoVars, normalFormVars, ripVars, optimizerVars, dumpVars, qeVars, conversionVars, printingVars, postProcessVars, intervalVars, toAbVars>>

besidesToAb == <<iterVars, paretoVars, normalFormVars, ripVars, optimizerVars, dumpVars, qeVars, conversionVars, printingVars, postProcessVars, intervalVars, samplingVars>>

-----------------------------------------------------------------------------
(* Bounds of the model. *)

\* the greatest depth bound k handed to the iterator
MaxDepth == 3

\* the greatest number of transitions of a system
MaxTrans == 2

\* the greatest finite coordinate of a point offered to the Pareto set
MaxCoord == 2

\* the greatest number of points of a collection added to a Pareto set
MaxAdds == 3

\* the number of symbols of the formulas handed to a transformer
MaxAtoms == 3

\* the greatest constant of an inequality handed to interval propagation
MaxConst == 1

\* the greatest number of terms of a DNF formula handed to an optimizer
MaxTerms == 2

\* the greatest number of vertices of a term's polyhedron
MaxVertices == 2

\* the number of distinct names of dump locations
MaxNames == 3

\* the greatest number of create_dump_location calls on a handler
MaxCreates == 4

\* the greatest absolute value of the numerator of a printed rational
MaxNumerator == 1

\* the greatest denominator of a printed rational
MaxDenominator == 2

\* the greatest number of summands of a printed sum
MaxSummands == 2

-----------------------------------------------------------------------------
(* relaxer/ta.py *)

Operator == {">", "<", ">=", "<=", "==", "!="}

Clocks == {"x", "y"}

ClockConstraint(clock, operator, limit, relaxation_idx) ==
    [clock |-> clock, operator |-> operator, limit |-> limit,
     relaxation_idx |-> relaxation_idx]

is_relaxed(constraint) == constraint.relaxation_idx # {}

Edge(process, guards, resets) ==
    [process |-> process, guards |-> guards, resets |-> resets]

Location(id, urgent, invariants) ==
    [id |-> id, urgent |-> urgent, invariants |-> invariants]

BooleanOr(left, right) == [kind |-> "BooleanOr", left |-> left, right |-> right]

BooleanAnd(left, right) == [kind |-> "BooleanAnd", left |-> left, right |-> right]

BooleanNot(argument) == [kind |-> "BooleanNot", argument |-> argument]

LocationPredicate(location_id) ==
    [kind |-> "LocationPredicate", location_id |-> location_id]

ClockAtom(constraint) == [kind |-> "ClockConstraint", constraint |-> constraint]

-----------------------------------------------------------------------------
(* relaxer/logical/lra.py and relaxer/logical/formula.py *)

DeltaVariable(j) == <<"delta", j>>

RelaxationVariable(i) == <<"relax", i>>

Summand(coefficient, var) == [coefficient |-> coefficient, var |-> var]

Inequality(left, symbol, right) ==
    [left |-> left, symbol |-> symbol, right |-> right]

TrueConst == [op |-> "Const", value |-> TRUE]

FalseConst == [op |-> "Const", value |-> FALSE]

And(arguments) == [op |-> "And", args |-> arguments]

Or(arguments) == [op |-> "Or", args |-> arguments]

Not(argument) == [op |-> "Not", arg |-> argument]

-----------------------------------------------------------------------------
(* The systems the iterator is run on: relaxer/tracing/system.py.          *)
(* A system has the two states "A" and "B", a list of at most MaxTrans      *)
(* transitions between them (outgoing_transitions returns those of a state  *)
(* in list order), and one operator `op` placed on a guard, on an           *)
(* invariant and in a safety property; the other constraints are fixed.     *)
(* The operator != , which the encoding rejects, is placed at one of the    *)
(* three (`at`) so that the rest of the system still encodes. A transition  *)
(* is named by its index in the list.                                       *)

States == {"A", "B"}

Places == {"guard", "invariant", "property"}

Themed(sys, place, default) ==
    IF sys.at = place \/ sys.at = "all" THEN sys.op ELSE default

Themes ==
    { [op |-> o, at |-> "all"] : o \in Operator \ {"!="} }
      \cup { [op |-> "!=", at |-> a] : a \in Places }

Systems ==
    { [initial_state |-> s, trans |-> tr, op |-> th.op, at |-> th.at] :
        s \in States,
        tr \in UNION { [1..n -> States \X States] : n \in 0..MaxTrans },
        th \in Themes }

num_of_relaxations(sys) == 4

source(sys, t) == sys.trans[t][1]

target(sys, t) == sys.trans[t][2]

\* SystemTransition.edges
edges(sys, t) ==
    IF t % 2 = 1
    THEN { Edge("P", {ClockConstraint("x", Themed(sys, "guard", "<="), 2, {0})},
                {"x"}) }
    ELSE { Edge("P", {ClockConstraint("y", ">=", 1, {})}, {"y"}),
           Edge("Q", {ClockConstraint("x", ">", 0, {1}),
                      ClockConstraint("x", "<", 3, {})}, {"y"}) }

\* SystemState.symbolic: the locations of a state
symbolic(sys, s) ==
    IF s = "A"
    THEN { Location("LA1", TRUE, {}),
           Location("LA2", FALSE, {ClockConstraint("x", "<=", 5, {2})}) }
    ELSE { Location("LB1", FALSE,
                    {ClockConstraint("y", Themed(sys, "invariant", ">="), 4, {3}),
                     ClockConstraint("x", "<", 6, {})}) }

\* TASystem.safety_properties
safety_properties(sys, s) ==
    IF s = "A"
    THEN { BooleanOr(LocationPredicate("LB1"),
                     ClockAtom(ClockConstraint("x", "<=", 10, {}))) }
    ELSE { BooleanAnd(BooleanNot(LocationPredicate("LA1")),
                      ClockAtom(ClockConstraint("y", Themed(sys, "property", "<="),
                                                7, {}))) }

\* TASystem.outgoing_transitions: the transitions of a state, in list order
outgoing_transitions(sys, s) ==
    SelectSeq([i \in 1..Len(sys.trans) |-> i], LAMBDA t : source(sys, t) = s)

-----------------------------------------------------------------------------
(* relaxer/logical/iterator.py: the encoders of DFSTraceIterator *)

Range(f) == { f[i] : i \in DOMAIN f }

\* DFSTraceIterator._delta_vars: delta_0 .. delta_k (a list; index j+1 here)
delta_vars(k) == [j \in 1..(k + 1) |-> DeltaVariable(j - 1)]

\* DFSTraceIterator._relaxations
relaxations(sys) == [i \in 1..num_of_relaxations(sys) |-> RelaxationVariable(i - 1)]

\* the Python slice list[lo:hi] of a list (indices from 0, clipped to the list)
Slice(list, lo, hi) ==
    LET h == IF hi < Len(list) THEN hi ELSE Len(list)
    IN  IF lo >= h THEN << >> ELSE SubSeq(list, lo + 1, h)

coefficient_from_operator(operator) ==
    IF operator = ">" \/ operator = ">=" THEN 1 ELSE -1

\* Optional[Summand]: empty for an unrelaxed constraint
encoded_relaxation(sys, constraint) ==
    IF is_relaxed(constraint)
    THEN { Summand(coefficient_from_operator(constraint.operator),
                   relaxations(sys)[(CHOOSE i \in constraint.relaxation_idx : TRUE) + 1]) }
    ELSE {}

\* a faulty variant of last_reset_of: the loop stops at an entry equal to
\* current_depth too, so a reset at the current depth is not read
last_reset_of_early_break(resets, current_depth) ==
    LET stops == { i \in 1..Len(resets) : resets[i] >= current_depth }
        read  == IF stops = {} THEN Len(resets)
                 ELSE (CHOOSE i \in stops : \A j \in stops : i <= j) - 1
    IN  IF read = 0 THEN 0 ELSE resets[read]

\* the for loop of _substitute_clock: the last entry read before the first
\* entry greater than current_depth stops the loop (0 when none is read)
last_reset_of(resets, current_depth) ==
    LET stops == { i \in 1..Len(resets) : resets[i] > current_depth }
        read  == IF stops = {} THEN Len(resets)
                 ELSE (CHOOSE i \in stops : \A j \in stops : i <= j) - 1
    IN  IF read = 0 THEN 0 ELSE resets[read]

substitute_clock(k, resets, current_depth, clock) ==
    LET last_reset == last_reset_of(resets[clock], current_depth)
        deltas     == Slice(delta_vars(k), last_reset, current_depth)
    IN  [i \in 1..Len(deltas) |-> Summand(1, deltas[i])]

\* the list summands with an Optional[Summand] appended when present
WithRelaxation(summands, encoded_rel) ==
    IF encoded_rel = {} THEN summands
    ELSE Append(summands, CHOOSE r \in encoded_rel : TRUE)

\* a faulty variant of encoded_clock_constraint: an unsupported operator is
\* skipped silently instead of raising
encoded_clock_constraint_no_raise(constraint, summands) ==
    CASE constraint.operator = "==" ->
           [raised |-> FALSE,
            out |-> { Inequality(summands, ">=", constraint.limit),
                      Inequality(summands, "<=", constraint.limit) }]
      [] constraint.operator \in {">", ">=", "<", "<="} ->
           [raised |-> FALSE,
            out |-> { Inequality(summands, constraint.operator, constraint.limit) }]
      [] OTHER ->
           [raised |-> FALSE, out |-> {}]

\* the generator _encoded_clock_constraint, run to its end: the inequalities
\* it yields, and whether it raises RuntimeError
encoded_clock_constraint(constraint, summands) ==
    CASE constraint.operator = "==" ->
           [raised |-> FALSE,
            out |-> { Inequality(summands, ">=", constraint.limit),
                      Inequality(summands, "<=", constraint.limit) }]
      [] constraint.operator = ">" \/ constraint.operator = ">=" ->
           [raised |-> FALSE,
            out |-> { Inequality(summands,
                                 IF constraint.operator = ">" THEN ">" ELSE ">=",
                                 constraint.limit) }]
      [] constraint.operator = "<" \/ constraint.operator = "<=" ->
           [raised |-> FALSE,
            out |-> { Inequality(summands,
                                 IF constraint.operator = "<" THEN "<" ELSE "<=",
                                 constraint.limit) }]
      [] OTHER ->
           [raised |-> TRUE, out |-> {}]

\* a faulty variant of encode_urgent: only the upper bound is added
encode_urgent_upper_only(k, current_depth) ==
    { Inequality(<< Summand(1, delta_vars(k)[current_depth + 1]) >>, "<=", 0) }

\* the two inequalities _encode_urgent adds at a depth
encode_urgent(k, current_depth) ==
    LET delta_sum == << Summand(1, delta_vars(k)[current_depth + 1]) >>
    IN  { Inequality(delta_sum, "<=", 0), Inequality(delta_sum, ">=", 0) }

\* the summands _encode_guards hands on for one guard
guard_summands(sys, k, resets, target_depth, guard) ==
    WithRelaxation(
        Append(substitute_clock(k, resets, target_depth - 1, guard.clock),
               Summand(1, delta_vars(k)[target_depth])),
        encoded_relaxation(sys, guard))

\* the summands _encode_locations hands on for one invariant, first call
invariant_summands(sys, k, resets, current_depth, invariant) ==
    WithRelaxation(substitute_clock(k, resets, current_depth, invariant.clock),
                   encoded_relaxation(sys, invariant))

\* _encoded_property: the formula, and whether building it raises
RECURSIVE encoded_property(_, _, _, _, _, _)
encoded_property(k, resets, property, current_depth, state, deltas_to_add) ==
    CASE property.kind = "BooleanOr" ->
           LET l == encoded_property(k, resets, property.left, current_depth,
                                     state, deltas_to_add)
               r == encoded_property(k, resets, property.right, current_depth,
                                     state, deltas_to_add)
           IN  [raised |-> l.raised \/ r.raised, f |-> Or({l.f, r.f})]
      [] property.kind = "BooleanAnd" ->
           LET l == encoded_property(k, resets, property.left, current_depth,
                                     state, deltas_to_add)
               r == encoded_property(k, resets, property.right, current_depth,
                                     state, deltas_to_add)
           IN  [raised |-> l.raised \/ r.raised, f |-> And({l.f, r.f})]
      [] property.kind = "BooleanNot" ->
           LET a == encoded_property(k, resets, property.argument, current_depth,
                                     state, deltas_to_add)
           IN  [raised |-> a.raised, f |-> Not(a.f)]
      [] property.kind = "LocationPredicate" ->
           [raised |-> FALSE,
            f |-> IF property.location_id \in { l.id : l \in state }
                  THEN TrueConst ELSE FalseConst]
      [] OTHER ->
           LET c        == property.constraint
               summands == substitute_clock(k, resets, current_depth, c.clock)
                             \o [i \in 1..Len(deltas_to_add) |->
                                   Summand(1, deltas_to_add[i])]
               enc      == encoded_clock_constraint(c, summands)
           IN  [raised |-> enc.raised, f |-> And(enc.out)]

-----------------------------------------------------------------------------
(* One encoding phase (guards, safety properties, locations) is a set of    *)
(* groups, iterated in the unspecified order of a frozenset; a group is a   *)
(* set of items, iterated in unspecified order too, followed by a tail       *)
(* (the urgency inequalities of a location). An item is what one update()    *)
(* call adds, or a raise that adds nothing.                                  *)

Group(items, tail) == [items |-> items, tail |-> tail]

GroupRaises(g) == \E it \in g.items : it.raised

GroupFull(g) == UNION { it.out : it \in g.items } \cup g.tail

PhaseRaises(G) == \E g \in G : GroupRaises(g)

\* what a phase adds when nothing raises
PhaseFull(G) == UNION { GroupFull(g) : g \in G }

\* what a phase may have added when it raises: the groups iterated before
\* the raising one, and the items of that group iterated before the raise
PhasePartials(G) ==
    UNION { { UNION { GroupFull(g) : g \in D } \cup UNION { it.out : it \in I } :
                D \in SUBSET { g \in G : ~GroupRaises(g) },
                I \in SUBSET { it \in gf.items : ~it.raised } } :
            gf \in { g \in G : GroupRaises(g) } }

\* _encode_guards: one group per edge, one item per guard
guard_groups(sys, k, resets, target_depth, E) ==
    { Group({ encoded_clock_constraint(
                  guard, guard_summands(sys, k, resets, target_depth, guard)) :
              guard \in edge.guards }, {}) :
      edge \in E }

\* _encode_resets: every edge appends target_depth once per clock it resets
encode_resets(resets, target_depth, E) ==
    [c \in Clocks |->
        resets[c] \o [i \in 1..Cardinality({ edge \in E : c \in edge.resets }) |->
                        target_depth]]

\* _encode_safety_properties: one item per property, holding both encodings
property_groups(sys, k, resets, current_depth, s) ==
    { LET plain   == encoded_property(k, resets, property, current_depth,
                                      symbolic(sys, s), << >>)
          delayed == encoded_property(k, resets, property, current_depth,
                                      symbolic(sys, s),
                                      << delta_vars(k)[current_depth + 1] >>)
      IN  Group({ [raised |-> plain.raised \/ delayed.raised,
                   out |-> IF plain.raised \/ delayed.raised THEN {}
                           ELSE {plain.f, delayed.f}] }, {}) :
      property \in safety_properties(sys, s) }

\* _encode_locations: one group per location, one item per invariant (both
\* instances; the first raises if either does), the urgency pair as tail
location_groups(sys, k, resets, current_depth, s) ==
    { Group({ LET summands == invariant_summands(sys, k, resets, current_depth,
                                                 invariant)
                  first    == encoded_clock_constraint(invariant, summands)
                  second   == encoded_clock_constraint(
                                  invariant,
                                  Append(summands,
                                         Summand(1, delta_vars(k)[current_depth + 1])))
              IN  [raised |-> first.raised, out |-> first.out \cup second.out] :
              invariant \in location.invariants },
            IF location.urgent THEN encode_urgent(k, current_depth) ELSE {}) :
      location \in symbolic(sys, s) }

\* a faulty variant of _copy_clock_resets: nothing is cut off
copy_clock_resets_keep_all(resets, until_depth) == resets

\* a faulty variant of _copy_clock_resets: the loop stops at the first entry
\* greater than until_depth, so an entry equal to until_depth is kept
copy_clock_resets_keep_equal(resets, until_depth) ==
    [c \in Clocks |->
        LET stops == { i \in 1..Len(resets[c]) : resets[c][i] > until_depth }
        IN  IF stops = {} THEN resets[c]
            ELSE SubSeq(resets[c], 1, (CHOOSE i \in stops : \A j \in stops : i <= j) - 1)]

\* _copy_clock_resets: every list cut at its first entry >= until_depth
copy_clock_resets(resets, until_depth) ==
    [c \in Clocks |->
        LET stops == { i \in 1..Len(resets[c]) : resets[c][i] >= until_depth }
        IN  IF stops = {} THEN resets[c]
            ELSE SubSeq(resets[c], 1, (CHOOSE i \in stops : \A j \in stops : i <= j) - 1)]

\* _encode_transition followed by _encode_state at one depth, on empty slots:
\* every way the two calls can end. E is empty for the initial state.
encode_outcomes(sys, k, resets, d, E, s) ==
    LET GG == guard_groups(sys, k, resets, d, E)
        r2 == encode_resets(resets, d, E)
        PG == property_groups(sys, k, r2, d, s)
        LG == location_groups(sys, k, r2, d, s)
    IN  IF PhaseRaises(GG)
        THEN { [raised |-> TRUE, resets |-> resets, ineqs |-> part, props |-> {}] :
               part \in PhasePartials(GG) }
        ELSE IF PhaseRaises(PG)
        THEN { [raised |-> TRUE, resets |-> r2, ineqs |-> PhaseFull(GG),
                props |-> part] :
               part \in PhasePartials(PG) }
        ELSE IF PhaseRaises(LG)
        THEN { [raised |-> TRUE, resets |-> r2,
                ineqs |-> PhaseFull(GG) \cup part, props |-> PhaseFull(PG)] :
               part \in PhasePartials(LG) }
        ELSE { [raised |-> FALSE, resets |-> r2,
                ineqs |-> PhaseFull(GG) \cup PhaseFull(LG),
                props |-> PhaseFull(PG)] }

\* the entries __iter__ and __next__ push for the transitions leaving s; an
\* entry also records the path of the bundle that pushed it (history)
pushed(sys, s, d, path) ==
    LET out == outgoing_transitions(sys, s)
    IN  [i \in 1..Len(out) |-> [depth |-> d, transition |-> out[i], parent |-> path]]

\* a faulty variant of stack_pop: the stack is read as a queue (popleft)
stack_pop_fifo(stack) ==
    [top |-> stack[1], rest |-> Tail(stack)]

\* deque.pop(): the entry pushed last, and the stack without it
stack_pop(stack) ==
    [top |-> stack[Len(stack)], rest |-> SubSeq(stack, 1, Len(stack) - 1)]

\* a faulty variant of next_depth: the increment is lost
next_depth_same(target_state_depth) == target_state_depth

\* line 134 of __next__: target_state_depth += 1
next_depth(target_state_depth) == target_state_depth + 1

\* a faulty variant of within_depth: the bound is taken strictly
within_depth_strict(target_state_depth, k) == target_state_depth < k

\* line 135 of __next__: the depth bound on what is pushed
within_depth(target_state_depth, k) == target_state_depth <= k

\* a faulty variant of snapshot: the delta variables are cut one short
snapshot_short_deltas(sys, k, strace, ineqs, props, target_state_depth) ==
    [symbolic_trace    |-> strace,
     relaxation_vars   |-> Range(relaxations(sys)),
     delta_variables   |-> Slice(delta_vars(k), 0, target_state_depth - 1),
     inequalities      |-> ineqs,
     property_formulas |-> props]

\* lines 141-151 of __next__: the bundle built from the iterator's lists
snapshot(sys, k, strace, ineqs, props, target_state_depth) ==
    [symbolic_trace    |-> strace,
     relaxation_vars   |-> Range(relaxations(sys)),
     delta_variables   |-> Slice(delta_vars(k), 0, target_state_depth),
     inequalities      |-> ineqs,
     property_formulas |-> props]

-----------------------------------------------------------------------------
(* The iterator as a state machine. outcome is "new" before __iter__,       *)
(* "iter" after __iter__ returned, "bundle" after __next__ returned a       *)
(* bundle, "error" after a call raised RuntimeError and "stop" after        *)
(* __next__ raised StopIteration.                                           *)

NoBundle == << >>

EmptyResets == [c \in Clocks |-> << >>]

\* no formula is propagated
RipIdle ==
    /\ rip_input = [op |-> "true", lit |-> << >>, args |-> {}]
    /\ rip_output = << >>

\* no optimizer is in use
OptimizerIdle ==
    /\ dnf_terms = << >>
    /\ optimizer = "none"
    /\ optima = << >>

\* no dump location handler is in use
DumpIdle ==
    /\ handler = "none"
    /\ dump_locations = {}
    /\ requested = << >>
    /\ create_result = << >>

\* no quantifier eliminator is in use
QEIdle ==
    /\ qe_state = "none"
    /\ qe_width = << >>
    /\ qe_stats = << >>

\* no conjunction is converted
ConversionIdle ==
    /\ conjunction_in = [op |-> "true", lit |-> << >>, args |-> {}]
    /\ inequalities_out = << >>

\* nothing is printed or parsed
PrintingIdle ==
    /\ lra_object = << >>
    /\ round_trip = << >>

\* no bundle is post-processed
PostProcessIdle ==
    /\ oracle_result = << >>
    /\ accumulated = << >>

\* no Interval object is under study
IntervalIdle ==
held_interval = << >> /\ tighten_call = << >>

\* no term is being sampled
SamplingIdle ==
ext = << >> /\ ext_adjacency = << >> /\ grid_points = 0 /\ sampled = << >>

\* no disjunct is being converted to a matrix
ToAbIdle ==
to_A_b_args = << >> /\ A_b = << >>

\* no Pareto set is in use
ParetoIdle ==
    /\ points = {}
    /\ last_add = << >>
    /\ offered = << >>

\* no transformer is in use
NormalFormIdle ==
    /\ in_formula = [op |-> "true", name |-> 0, args |-> EmptyBag]
    /\ transformer = "none"
    /\ out_formula = << >>

Init ==
    /\ system \in Systems
    /\ depth \in 0..MaxDepth
    /\ outcome = "new"
    /\ symbolic_trace = << >>
    /\ clock_resets = EmptyResets
    /\ trace_ineqs = << >>
    /\ property_formulas = << >>
    /\ transition_stack = << >>
    /\ bundle = NoBundle
    /\ emitted = << >>
    /\ errored = FALSE
    /\ ParetoIdle
    /\ NormalFormIdle
    /\ RipIdle
    /\ OptimizerIdle
    /\ DumpIdle
    /\ QEIdle
    /\ ConversionIdle
    /\ PrintingIdle
    /\ PostProcessIdle
    /\ IntervalIdle
    /\ SamplingIdle
    /\ ToAbIdle

\* DFSTraceIterator.__iter__, on the iterator's own state
DFSTraceIterator_iter ==
    /\ outcome = "new"
    /\ \E o \in encode_outcomes(system, depth, EmptyResets, 0, {},
                                system.initial_state) :
          /\ clock_resets' = o.resets
          /\ trace_ineqs' = << o.ineqs >>
          /\ property_formulas' = << o.props >>
          /\ IF o.raised
             THEN /\ outcome' = "error"
                  /\ errored' = TRUE
                  /\ symbolic_trace' = << >>
                  /\ transition_stack' = << >>
             ELSE /\ outcome' = "iter"
                  /\ errored' = FALSE
                  /\ symbolic_trace' = << symbolic(system, system.initial_state) >>
                  /\ transition_stack' =
                        IF 1 > depth THEN << >>
                        ELSE pushed(system, system.initial_state, 1, << >>)
    /\ bundle' = NoBundle
    /\ emitted' = << >>
    /\ UNCHANGED <<system, depth>>

\* DFSTraceIterator.__iter__
Iter ==
    /\ DFSTraceIterator_iter
    /\ UNCHANGED besidesIter

\* DFSTraceIterator.__next__, on the iterator's own state
DFSTraceIterator_next ==
    /\ outcome \in {"iter", "bundle", "error"}
    /\ IF Len(transition_stack) = 0
       THEN /\ outcome' = "stop"
            /\ bundle' = NoBundle
            /\ UNCHANGED <<symbolic_trace, clock_resets, trace_ineqs,
                           property_formulas, transition_stack, emitted, errored>>
       ELSE LET top   == stack_pop(transition_stack).top
                rest  == stack_pop(transition_stack).rest
                d     == top.depth
                t     == top.transition
                ineqs == Slice(trace_ineqs, 0, d)
                props == Slice(property_formulas, 0, d)
                trace == Slice(symbolic_trace, 0, d)
            IN  \E o \in encode_outcomes(system, depth,
                                         copy_clock_resets(clock_resets, d), d,
                                         edges(system, t), target(system, t)) :
                   /\ clock_resets' = o.resets
                   /\ trace_ineqs' = Append(ineqs, o.ineqs)
                   /\ property_formulas' = Append(props, o.props)
                   /\ IF o.raised
                      THEN /\ outcome' = "error"
                           /\ errored' = TRUE
                           /\ symbolic_trace' = trace
                           /\ transition_stack' = rest
                           /\ bundle' = NoBundle
                           /\ emitted' = emitted
                      ELSE /\ outcome' = "bundle"
                           /\ errored' = errored
                           /\ symbolic_trace' =
                                 Append(trace, symbolic(system, target(system, t)))
                           /\ transition_stack' =
                                 IF within_depth(next_depth(d), depth)
                                 THEN rest \o pushed(system, target(system, t),
                                                     next_depth(d),
                                                     Append(top.parent, t))
                                 ELSE rest
                           /\ bundle' = << snapshot(system, depth, symbolic_trace',
                                                    trace_ineqs', property_formulas',
                                                    next_depth(d)) >>
                           /\ emitted' = Append(emitted,
                                                [depth |-> d,
                                                 path |-> Append(top.parent, t)])
    /\ UNCHANGED <<system, depth>>

\* DFSTraceIterator.__next__
NextCall ==
    /\ DFSTraceIterator_next
    /\ UNCHANGED besidesIter

Next == Iter \/ NextCall

Spec == Init /\ [][Next]_vars

-----------------------------------------------------------------------------
(* relaxer/optimization/pareto.py. A point is a pair of coordinates; the    *)
(* coordinate Infinity stands for float("inf"), which the code only         *)
(* compares: it is >= every coordinate and > every finite one.              *)

Infinity == MaxCoord + 1

Points == (0..Infinity) \X (0..Infinity)

\* zip(p, q): the index pairs both tuples have
Zip(p, q) == 1..(IF Len(p) < Len(q) THEN Len(p) ELSE Len(q))

dominates(p, q) ==
    /\ \A i \in Zip(p, q) : p[i] >= q[i]
    /\ \E i \in Zip(p, q) : p[i] > q[i]

\* the for loop of ParetoSet.add over a copy of the set, whose iteration
\* order is unspecified: every set the call can leave, `rest` being the
\* points of the copy not yet visited
RECURSIVE add_loop(_, _, _)
add_loop(pts, rest, p) ==
    IF rest = {} THEN { pts \cup {p} }
    ELSE UNION { IF dominates(p, q) THEN add_loop(pts \ {q}, rest \ {q}, p)
                 ELSE IF dominates(q, p) THEN { pts }
                 ELSE add_loop(pts, rest \ {q}, p) :
                 q \in rest }

\* a faulty variant of add: a stored point the new one dominates is kept
add_keep_dominated(pts, p) ==
    IF \E q \in pts : dominates(q, p) THEN { pts } ELSE { pts \cup {p} }

\* a faulty variant of add: the early return on a dominating stored point is
\* missing, the new point is inserted all the same
add_insert_dominated(pts, p) ==
    { (pts \ { q \in pts : dominates(p, q) }) \cup {p} }

\* a faulty variant of add: a new point is only stored when it dominates
\* every stored point
add_reject_incomparable(pts, p) ==
    IF \E q \in pts : ~dominates(p, q) THEN { pts } ELSE { {p} }

\* ParetoSet.add
add(pts, p) == add_loop(pts, pts, p)

\* no iterator is in use
IterIdle ==
    /\ system = [initial_state |-> "A", trans |-> << >>, op |-> "<=", at |-> "all"]
    /\ depth = 0
    /\ outcome = "new"
    /\ symbolic_trace = << >>
    /\ clock_resets = EmptyResets
    /\ trace_ineqs = << >>
    /\ property_formulas = << >>
    /\ transition_stack = << >>
    /\ bundle = NoBundle
    /\ emitted = << >>
    /\ errored = FALSE

InitPareto ==
    /\ IterIdle
    /\ NormalFormIdle
    /\ RipIdle
    /\ OptimizerIdle
    /\ DumpIdle
    /\ QEIdle
    /\ ConversionIdle
    /\ PrintingIdle
    /\ PostProcessIdle
    /\ IntervalIdle
    /\ SamplingIdle
    /\ ToAbIdle
    /\ points = {}
    /\ last_add = << >>
    /\ offered = << >>

Add ==
    /\ \E p \in Points :
          /\ points' \in add(points, p)
          /\ last_add' = << [p |-> p, before |-> points] >>
    /\ UNCHANGED offered
    /\ UNCHANGED besidesPareto

SpecPareto == InitPareto /\ [][Add]_vars

\* ParetoSet.add on a collection of at most MaxAdds points handed one by
\* one, in every order
AddOffered ==
    /\ Len(offered) < MaxAdds
    /\ \E p \in Points :
          /\ points' \in add(points, p)
          /\ last_add' = << [p |-> p, before |-> points] >>
          /\ offered' = Append(offered, p)
    /\ UNCHANGED besidesPareto

SpecParetoOrder == InitPareto /\ [][AddOffered]_vars

-----------------------------------------------------------------------------
(* relaxer/logical/pysmt/normalform.py. A pysmt formula node is a record of *)
(* its operator, its symbol and the bag of its arguments: two nodes that     *)
(* differ only in the order of their arguments are one node here, since the  *)
(* handlers build every argument list by iterating over a Python set, whose  *)
(* order is unspecified. The walker's memo table is not modelled: a node     *)
(* met again yields what its handler computed the first time, which is what  *)
(* the handler computes again here.                                          *)

Symbol(i) == [op |-> "symbol", name |-> i, args |-> EmptyBag]

manager_TRUE == [op |-> "true", name |-> 0, args |-> EmptyBag]

manager_FALSE == [op |-> "false", name |-> 0, args |-> EmptyBag]

manager_Not(f) == [op |-> "not", name |-> 0, args |-> SetToBag({f})]

\* FormulaManager.And: no argument gives TRUE, one argument gives itself
manager_And(args) ==
    IF BagCardinality(args) = 0 THEN manager_TRUE
    ELSE IF BagCardinality(args) = 1 THEN CHOOSE f \in BagToSet(args) : TRUE
    ELSE [op |-> "and", name |-> 0, args |-> args]

\* FormulaManager.Or: no argument gives FALSE, one argument gives itself
manager_Or(args) ==
    IF BagCardinality(args) = 0 THEN manager_FALSE
    ELSE IF BagCardinality(args) = 1 THEN CHOOSE f \in BagToSet(args) : TRUE
    ELSE [op |-> "or", name |-> 0, args |-> args]

\* FNode.args() as a set, FNode.arg(0)
args_of(f) == BagToSet(f.args)

arg0(f) == CHOOSE c \in BagToSet(f.args) : TRUE

\* pysmt.shortcuts.get_atoms
RECURSIVE get_atoms(_)
get_atoms(f) ==
    IF f.op = "symbol" THEN {f}
    ELSE UNION { get_atoms(c) : c \in args_of(f) }

\* the truth value of a formula under the set v of true symbols
RECURSIVE holds(_, _)
holds(f, v) ==
    CASE f.op = "symbol" -> f.name \in v
      [] f.op = "true" -> TRUE
      [] f.op = "false" -> FALSE
      [] f.op = "not" -> ~holds(arg0(f), v)
      [] f.op = "and" -> \A c \in args_of(f) : holds(c, v)
      [] f.op = "or" -> \E c \in args_of(f) : holds(c, v)

\* pysmt.shortcuts.is_valid(Iff(f, g))
is_valid_iff(f, g) ==
    \A v \in SUBSET { a.name : a \in get_atoms(f) \cup get_atoms(g) } :
        holds(f, v) <=> holds(g, v)

\* literal_sets of walk_and (inner = "or") and of walk_or (inner = "and")
literal_sets(args, inner) ==
    { IF c.op = inner THEN args_of(c) ELSE {c} : c \in args }

absorpted(arg, sets) ==
    \E other \in sets : args_of(arg) # other /\ other \subseteq args_of(arg)

\* NNFTransformer.walk_and on the set of the walked arguments
NNFTransformer_walk_and(args) ==
    LET sets == literal_sets(args, "or")
        conjuncts == BagUnion({
            IF arg.op = "and" THEN arg.args
            ELSE IF arg.op = "or" /\ absorpted(arg, sets) THEN EmptyBag
            ELSE IF arg.op = "true" THEN EmptyBag
            ELSE SetToBag({arg}) : arg \in args })
    IN IF \E arg \in args : \/ arg.op = "not" /\ arg0(arg) \in args
                            \/ arg.op = "false"
       THEN manager_FALSE
       ELSE IF BagCardinality(conjuncts) = 0 THEN manager_TRUE
       ELSE manager_And(conjuncts)

\* NNFTransformer.walk_or on the set of the walked arguments
NNFTransformer_walk_or(args) ==
    LET sets == literal_sets(args, "and")
        disjuncts == BagUnion({
            IF arg.op = "or" THEN arg.args
            ELSE IF arg.op = "and" /\ absorpted(arg, sets) THEN EmptyBag
            ELSE IF arg.op = "false" THEN EmptyBag
            ELSE SetToBag({arg}) : arg \in args })
    IN IF \E arg \in args : \/ arg.op = "not" /\ arg0(arg) \in args
                            \/ arg.op = "true"
       THEN manager_TRUE
       ELSE IF BagCardinality(disjuncts) = 0 THEN manager_TRUE
       ELSE manager_Or(disjuncts)

\* the set built by walk_not from the arguments of a conjunction or of a
\* disjunction: the negation of each, and what a negated one negates
negated_args(arg) ==
    { manager_Not(c) : c \in args_of(arg) } \cup
    { arg0(c) : c \in { d \in args_of(arg) : d.op = "not" } }

\* NNFTransformer.walk_not on the walked argument: the formula returned and
\* whether _is_in_normal_form was set to False
NNFTransformer_walk_not(atoms, arg) ==
    IF arg \in atoms THEN [f |-> manager_Not(arg), dirty |-> FALSE]
    ELSE [dirty |-> TRUE,
          f |-> CASE arg.op = "false" -> manager_TRUE
                  [] arg.op = "true" -> manager_FALSE
                  [] arg.op = "not" -> arg0(arg)
                  [] arg.op = "and" -> manager_Or(SetToBag(negated_args(arg)))
                  [] arg.op = "or" -> manager_And(SetToBag(negated_args(arg)))]

\* CNFTransformer.walk_and / DNFTransformer.walk_or: the formula of the
\* parent class, not in normal form when it nests its own operator
flag_nested(transformed, inner) ==
    [f |-> transformed,
     dirty |-> \E arg \in args_of(transformed) : arg.op = inner]

\* CNFTransformer.walk_or (outer = "or", inner = "and") and
\* DNFTransformer.walk_and (outer = "and", inner = "or"): the nested formula
\* met last in the argument tuple is pushed back; which one is last depends
\* on the order of the arguments, so each nested formula may be the one
push_back(preprocessed, outer, inner) ==
    LET nested == { arg \in args_of(preprocessed) : arg.op = inner }
        build(parts) == IF outer = "or" THEN manager_Or(SetToBag(parts))
                        ELSE manager_And(SetToBag(parts))
        close(parts) == IF outer = "or" THEN manager_And(SetToBag(parts))
                        ELSE manager_Or(SetToBag(parts))
    IN IF preprocessed.op # outer \/ nested = {}
       THEN { [f |-> preprocessed, dirty |-> FALSE] }
       ELSE { [f |-> close({ build((args_of(preprocessed) \ {n}) \cup {arg}) :
                             arg \in args_of(n) }),
               dirty |-> TRUE] : n \in nested }

\* the handler the walker calls for a node of class cls ("nnf", "cnf",
\* "dnf") on the set of its walked arguments: every formula it can return,
\* each with whether _is_in_normal_form was set to False
handle(cls, atoms, op, args) ==
    CASE op = "not" ->
           { NNFTransformer_walk_not(atoms, CHOOSE a \in args : TRUE) }
      [] op = "and" ->
           IF cls = "cnf"
           THEN { flag_nested(NNFTransformer_walk_and(args), "and") }
           ELSE IF cls = "dnf"
           THEN push_back(NNFTransformer_walk_and(args), "and", "or")
           ELSE { [f |-> NNFTransformer_walk_and(args), dirty |-> FALSE] }
      [] op = "or" ->
           IF cls = "dnf"
           THEN { flag_nested(NNFTransformer_walk_or(args), "or") }
           ELSE IF cls = "cnf"
           THEN push_back(NNFTransformer_walk_or(args), "or", "and")
           ELSE { [f |-> NNFTransformer_walk_or(args), dirty |-> FALSE] }

\* DagWalker.walk: the arguments are walked first, then the handler of the
\* node is called on their results; walk_identity for every other node
RECURSIVE walk(_, _, _)
walk(cls, atoms, f) ==
    IF f.op \in {"symbol", "true", "false"}
    THEN { [f |-> f, dirty |-> FALSE] }
    ELSE LET C == args_of(f)
             W == [c \in C |-> walk(cls, atoms, c)]
             picks == { g \in [C -> UNION { W[c] : c \in C }] :
                          \A c \in C : g[c] \in W[c] }
         IN UNION { { [f |-> h.f,
                       dirty |-> h.dirty \/ \E c \in C : g[c].dirty] :
                      h \in handle(cls, atoms, f.op, { g[c].f : c \in C }) } :
                    g \in picks }

\* the while loop of transform: the formulas it can stop with
RECURSIVE fixpoint(_, _, _)
fixpoint(cls, atoms, f) ==
    UNION { IF o.dirty THEN fixpoint(cls, atoms, o.f) ELSE { o.f } :
            o \in walk(cls, atoms, f) }

\* NNFTransformer.transform, inherited by CNFTransformer and DNFTransformer;
\* the final assert raises AssertionError
transform(cls, formula) ==
    { [raised |-> ~is_valid_iff(out, formula), f |-> out] :
      out \in fixpoint(cls, get_atoms(formula), formula) }

\* the formulas handed to a transformer: built by Not, And and Or in up to
\* two layers over the symbols and the constants, and their negations
Leaves == { Symbol(i) : i \in 1..MaxAtoms } \cup {manager_TRUE, manager_FALSE}

Layer(S) ==
    S \cup { manager_Not(f) : f \in S }
      \cup { [op |-> o, name |-> 0, args |-> SetToBag({f}) (+) SetToBag({g})] :
             o \in {"and", "or"}, f \in S, g \in S }

Formulas == LET L == Layer(Layer(Leaves)) IN L \cup { manager_Not(f) : f \in L }

InitNormalForm ==
    /\ IterIdle
    /\ ParetoIdle
    /\ RipIdle
    /\ OptimizerIdle
    /\ DumpIdle
    /\ QEIdle
    /\ ConversionIdle
    /\ PrintingIdle
    /\ PostProcessIdle
    /\ IntervalIdle
    /\ SamplingIdle
    /\ ToAbIdle
    /\ in_formula \in Formulas
    /\ transformer = "none"
    /\ out_formula = << >>

\* transform of a fresh transformer of class cls on the formula
Transform(cls) ==
    /\ transformer = "none"
    /\ transformer' = cls
    /\ \E r \in transform(cls, in_formula) : out_formula' = << r >>
    /\ UNCHANGED in_formula
    /\ UNCHANGED besidesNormalForm

NNFTransform == Transform("nnf")

CNFTransform == Transform("cnf")

DNFTransform == Transform("dnf")

NextNormalForm == NNFTransform \/ CNFTransform \/ DNFTransform

SpecNormalForm == InitNormalForm /\ [][NextNormalForm]_vars

-----------------------------------------------------------------------------
(* relaxer/logical/pysmt/conversion.py and rip.py: linear real arithmetic.   *)
(* A pysmt term is a real constant, a real symbol, a product of a constant   *)
(* and a symbol, or a sum of such; an atom is LT or LE of two terms (pysmt   *)
(* builds GT and GE as LT and LE of the swapped terms); a literal is an atom *)
(* or its negation.                                                          *)

RealConst(c) == [kind |-> "const", value |-> c, name |-> "", summands |-> << >>]

RealSymbol(n) == [kind |-> "symbol", value |-> 0, name |-> n, summands |-> << >>]

Times(c, n) == [kind |-> "times", value |-> c, name |-> n, summands |-> << >>]

Plus(summands) == [kind |-> "plus", value |-> 0, name |-> "", summands |-> summands]

is_constant(term) == term.kind = "const"

LT(left, right) == [negated |-> FALSE, rel |-> "lt", left |-> left, right |-> right]

LE(left, right) == [negated |-> FALSE, rel |-> "le", left |-> left, right |-> right]

NotLit(literal) == [literal EXCEPT !.negated = TRUE]

\* InequalitySymbol.turned
turned(symbol) ==
    CASE symbol = ">" -> "<"
      [] symbol = "<" -> ">"
      [] symbol = ">=" -> "<="
      [] symbol = "<=" -> ">="

\* get_inequality_triple
get_inequality_triple(literal) ==
    [left |-> literal.left,
     op |-> IF literal.rel = "lt" /\ ~literal.negated THEN "<"
            ELSE IF literal.rel = "le" /\ ~literal.negated THEN "<="
            ELSE IF literal.rel = "lt" /\ literal.negated THEN ">="
            ELSE ">",
     right |-> literal.right]

\* rip.Bound; the value inf stands for math.inf, -inf for -math.inf
inf == 1000

Bound(value, is_strict) == [value |-> value, is_strict |-> is_strict]

\* float arithmetic on bounds: a sum with an infinite value is infinite
clamp(v) == IF v >= inf THEN inf ELSE IF v <= -inf THEN -inf ELSE v

\* rip.Interval: Interval() is the whole line
Interval(upper, lower) == [upper |-> upper, lower |-> lower]

WholeLine == Interval(Bound(inf, FALSE), Bound(-inf, FALSE))

\* tighten_upper replacing on equal values when the new bound is non-strict
tighten_upper_weaker(interval, upper) ==
    IF upper.value > interval.upper.value THEN interval
    ELSE IF upper.value = interval.upper.value /\ upper.is_strict THEN interval
    ELSE [interval EXCEPT !.upper = upper]

tighten_upper(interval, upper) ==
    IF upper.value > interval.upper.value THEN interval
    ELSE IF upper.value = interval.upper.value /\ ~upper.is_strict THEN interval
    ELSE [interval EXCEPT !.upper = upper]

tighten_lower(interval, lower) ==
    IF lower.value < interval.lower.value THEN interval
    ELSE IF lower.value = interval.lower.value /\ ~lower.is_strict THEN interval
    ELSE [interval EXCEPT !.lower = lower]

\* _get_bound: the bounded term, the bound, and whether it is a lower bound
get_bound(left, op, right) ==
    [variables |-> IF is_constant(left) THEN right ELSE left,
     bound |-> Bound(IF is_constant(left) THEN left.value ELSE right.value,
                     op \in {">", "<"}),
     is_lower |-> IF is_constant(left) THEN op \notin {">", ">="}
                  ELSE op \notin {"<", "<="}]

\* the boolean nodes rip.py reads and builds: a literal, a disjunction of
\* literals, a conjunction of clauses, TRUE and FALSE
NoLiteral == LE(RealConst(0), RealConst(0))

Lit(literal) == [op |-> "lit", lit |-> literal, args |-> {}]

shortcuts_TRUE == [op |-> "true", lit |-> NoLiteral, args |-> {}]

shortcuts_FALSE == [op |-> "false", lit |-> NoLiteral, args |-> {}]

\* pysmt.shortcuts.Or / And of a set: none gives the constant, one itself
shortcuts_Or(nodes) ==
    IF nodes = {} THEN shortcuts_FALSE
    ELSE IF Cardinality(nodes) = 1 THEN CHOOSE n \in nodes : TRUE
    ELSE [op |-> "or", lit |-> NoLiteral, args |-> nodes]

shortcuts_And(nodes) ==
    IF nodes = {} THEN shortcuts_TRUE
    ELSE IF Cardinality(nodes) = 1 THEN CHOOSE n \in nodes : TRUE
    ELSE [op |-> "and", lit |-> NoLiteral, args |-> nodes]

\* pysmt.shortcuts.get_atoms of such a node
RECURSIVE lra_atoms(_)
lra_atoms(node) ==
    IF node.op = "lit" THEN { [node.lit EXCEPT !.negated = FALSE] }
    ELSE UNION { lra_atoms(c) : c \in node.args }

\* the value of a term, in halves, where val gives each symbol's value in
\* halves
RECURSIVE term_value(_, _)
term_value(term, val) ==
    CASE term.kind = "const" -> 2 * term.value
      [] term.kind = "symbol" -> val[term.name]
      [] term.kind = "times" -> term.value * val[term.name]
      [] term.kind = "plus" ->
           IF term.summands = << >> THEN 0
           ELSE term_value(Head(term.summands), val)
                + term_value(Plus(Tail(term.summands)), val)

literal_holds(literal, val) ==
    LET l == term_value(literal.left, val)
        r == term_value(literal.right, val)
        atom == IF literal.rel = "lt" THEN l < r ELSE l <= r
    IN IF literal.negated THEN ~atom ELSE atom

RECURSIVE lra_holds(_, _)
lra_holds(node, val) ==
    CASE node.op = "lit" -> literal_holds(node.lit, val)
      [] node.op = "true" -> TRUE
      [] node.op = "false" -> FALSE
      [] node.op = "or" -> \E c \in node.args : lra_holds(c, val)
      [] node.op = "and" -> \A c \in node.args : lra_holds(c, val)

\* the real symbols and the values they are given to compare two formulas:
\* every multiple of one half between -1 and MaxConst + 1
RealSymbols == {"x", "y"}

Valuations == [RealSymbols -> (-2)..(2 * MaxConst + 2)]

\* pysmt.shortcuts.is_valid(Iff(f, g)) for two such nodes
lra_is_valid_iff(f, g) == \A val \in Valuations : lra_holds(f, val) <=> lra_holds(g, val)

lra_satisfiable(f) == \E val \in Valuations : lra_holds(f, val)

\* unit_intervals[variables] after tightening one of its bounds, a new
\* entry starting from Interval()
tightened(unit_intervals, variables, bound, is_lower) ==
    LET old == IF variables \in DOMAIN unit_intervals
               THEN unit_intervals[variables] ELSE WholeLine
        new == IF is_lower THEN tighten_lower(old, bound)
               ELSE tighten_upper(old, bound)
    IN (variables :> new) @@ unit_intervals

\* the body of the loop of _add_unit_intervals for one clause: the new
\* unit_intervals, or that ValueError was raised
add_unit_interval(unit_intervals, clause) ==
    IF clause.op \in {"or", "true"}
    THEN [raised |-> FALSE, unit_intervals |-> unit_intervals]
    ELSE IF clause.op # "lit"
    THEN [raised |-> TRUE, unit_intervals |-> unit_intervals]
    ELSE
      LET t == get_inequality_triple(clause.lit)
          known == DOMAIN unit_intervals
      IN IF ~(is_constant(t.left) \/ is_constant(t.right))
         THEN IF t.left \notin known /\ t.right \notin known
              THEN [raised |-> FALSE, unit_intervals |-> unit_intervals]
              ELSE
                LET from_left == t.left \in known
                    var_to_add == IF from_left THEN t.right ELSE t.left
                    bound_var == IF from_left THEN t.left ELSE t.right
                    is_lower == IF from_left THEN t.op \in {"<=", "<"}
                                ELSE t.op \in {">=", ">"}
                    is_strict == t.op \in {"<", ">"}
                    found == IF is_lower THEN unit_intervals[bound_var].lower
                             ELSE unit_intervals[bound_var].upper
                    bound == IF is_strict THEN Bound(found.value, TRUE) ELSE found
                IN [raised |-> FALSE,
                    unit_intervals |->
                        tightened(unit_intervals, var_to_add, bound, is_lower)]
         ELSE LET b == get_bound(t.left, t.op, t.right)
              IN [raised |-> FALSE,
                  unit_intervals |->
                      tightened(unit_intervals, b.variables, b.bound, b.is_lower)]

\* _add_unit_intervals: the clauses are visited in the unspecified order of
\* a set, each order giving one outcome
RECURSIVE add_unit_intervals(_, _)
add_unit_intervals(unit_intervals, clauses) ==
    IF clauses = {}
    THEN { [raised |-> FALSE, unit_intervals |-> unit_intervals] }
    ELSE UNION { LET r == add_unit_interval(unit_intervals, clause)
                 IN IF r.raised THEN { r }
                    ELSE add_unit_intervals(r.unit_intervals, clauses \ {clause}) :
                 clause \in clauses }

\* the loop of _add_implied_intervals over the summands from the i-th on:
\* the interval reached and whether skip was set
RECURSIVE summed_interval(_, _, _, _)
summed_interval(unit_intervals, summands, i, interval) ==
    IF i > Len(summands) THEN [skip |-> FALSE, interval |-> interval]
    ELSE
      LET arg == summands[i]
          summand == IF arg.kind = "times" THEN RealSymbol(arg.name) ELSE arg
          coefficient == IF arg.kind = "times" THEN arg.value ELSE 1
      IN IF coefficient = 0 THEN [skip |-> FALSE, interval |-> interval]
         ELSE IF summand \notin DOMAIN unit_intervals
         THEN [skip |-> TRUE, interval |-> interval]
         ELSE
           LET si == unit_intervals[summand]
               low == clamp(si.lower.value * coefficient)
               up == clamp(si.upper.value * coefficient)
               next ==
                 IF low <= up
                 THEN Interval(
                        Bound(clamp(interval.upper.value + up),
                              interval.upper.is_strict \/ si.upper.is_strict),
                        Bound(clamp(interval.lower.value + low),
                              interval.lower.is_strict \/ si.lower.is_strict))
                 ELSE Interval(
                        Bound(clamp(interval.upper.value + low),
                              interval.upper.is_strict \/ si.lower.is_strict),
                        Bound(clamp(interval.lower.value + up),
                              interval.lower.is_strict \/ si.upper.is_strict))
           IN summed_interval(unit_intervals, summands, i + 1, next)

\* _add_implied_intervals: every atom that bounds a sum by a constant gives
\* the sum the interval its summands' intervals add up to
\* (entries are read for symbols and written for sums, so the order in
\* which the set of atoms is visited does not matter)
RECURSIVE add_implied_intervals(_, _)
add_implied_intervals(unit_intervals, atoms) ==
    IF atoms = {} THEN unit_intervals
    ELSE
      LET atom == CHOOSE a \in atoms : TRUE
          t == get_inequality_triple(atom)
          variables == IF is_constant(t.left) THEN t.right ELSE t.left
          r == summed_interval(unit_intervals, variables.summands, 1,
                               Interval(Bound(0, FALSE), Bound(0, FALSE)))
          after ==
            IF ~(is_constant(t.left) \/ is_constant(t.right)) THEN unit_intervals
            ELSE IF variables.kind # "plus" THEN unit_intervals
            ELSE IF r.skip THEN unit_intervals
            ELSE (variables :> r.interval) @@ unit_intervals
      IN add_implied_intervals(after, atoms \ {atom})

\* the unit interval decides the literal true
satisfied_by(interval, bound, is_lower) ==
    IF is_lower
    THEN \/ bound.value < interval.lower.value
         \/ /\ bound.value = interval.lower.value
            /\ (interval.lower.is_strict \/ ~bound.is_strict)
    ELSE \/ bound.value > interval.upper.value
         \/ /\ bound.value = interval.upper.value
            /\ (interval.upper.is_strict \/ ~bound.is_strict)

\* the unit interval decides the literal false
contradicts(interval, bound, is_lower) ==
    IF is_lower
    THEN \/ bound.value > interval.upper.value
         \/ /\ bound.value = interval.upper.value
            /\ (bound.is_strict \/ interval.upper.is_strict)
    ELSE \/ bound.value < interval.lower.value
         \/ /\ bound.value = interval.lower.value
            /\ (bound.is_strict \/ interval.lower.is_strict)

\* what _rewrite_clause finds for one literal of a disjunction
literal_fate(literal, unit_intervals) ==
    LET t == get_inequality_triple(literal)
        b == get_bound(t.left, t.op, t.right)
    IN IF ~(is_constant(t.left) \/ is_constant(t.right)) THEN "kept"
       ELSE IF b.variables \notin DOMAIN unit_intervals THEN "kept"
       ELSE IF satisfied_by(unit_intervals[b.variables], b.bound, b.is_lower)
       THEN "satisfied"
       ELSE IF contradicts(unit_intervals[b.variables], b.bound, b.is_lower)
       THEN "skipped"
       ELSE "kept"

\* _rewrite_clause: the rewritten clause and whether it changed, or that
\* ValueError was raised
rewrite_clause(clause, unit_intervals) ==
    IF clause.op = "lit"
    THEN [raised |-> FALSE, f |-> clause, changed |-> FALSE]
    ELSE IF clause.op # "or"
    THEN [raised |-> TRUE, f |-> clause, changed |-> FALSE]
    ELSE
      LET fate(n) == literal_fate(n.lit, unit_intervals)
          out_literals == { n \in clause.args : fate(n) = "kept" }
      IN IF \E n \in clause.args : fate(n) = "satisfied"
         THEN [raised |-> FALSE, f |-> shortcuts_TRUE, changed |-> TRUE]
         ELSE IF out_literals = {}
         THEN [raised |-> FALSE, f |-> shortcuts_FALSE, changed |-> TRUE]
         ELSE [raised |-> FALSE, f |-> shortcuts_Or(out_literals),
               changed |-> out_literals # clause.args]

\* the while loop of propagate_real_intervals_cnf: every result it can end
\* with, as the formula returned or the exception raised
RECURSIVE propagation(_, _, _, _)
propagation(cnf_formula, atoms, clauses, unit_intervals) ==
    UNION {
      IF u.raised THEN { [raised |-> "ValueError", f |-> cnf_formula] }
      ELSE
        LET intervals == add_implied_intervals(u.unit_intervals, atoms)
            rewritten == [c \in clauses |-> rewrite_clause(c, intervals)]
            rewritten_clauses ==
                { rewritten[c].f : c \in clauses } \ {shortcuts_TRUE}
            out_cnf == shortcuts_And(rewritten_clauses)
        IN IF \E c \in clauses : rewritten[c].raised
           THEN { [raised |-> "ValueError", f |-> cnf_formula] } \cup
                { [raised |-> "", f |-> shortcuts_FALSE] :
                  c \in { d \in clauses : rewritten[d].f = shortcuts_FALSE } }
           ELSE IF \E c \in clauses : rewritten[c].f = shortcuts_FALSE
           THEN { [raised |-> "", f |-> shortcuts_FALSE] }
           ELSE IF \E c \in clauses : rewritten[c].changed
           THEN propagation(cnf_formula, atoms, rewritten_clauses, intervals)
           ELSE IF lra_is_valid_iff(out_cnf, cnf_formula)
           THEN { [raised |-> "", f |-> out_cnf] }
           ELSE { [raised |-> "AssertionError", f |-> out_cnf] } :
      u \in add_unit_intervals(unit_intervals, clauses) }

\* propagate_real_intervals_cnf
propagate_real_intervals_cnf(cnf_formula) ==
    IF cnf_formula.op \in {"lit", "true", "false"}
    THEN { [raised |-> "", f |-> cnf_formula] }
    ELSE IF cnf_formula.op = "or"
    THEN LET r == rewrite_clause(cnf_formula, << >>)
         IN { [raised |-> "", f |-> r.f] }
    ELSE propagation(cnf_formula, lra_atoms(cnf_formula), cnf_formula.args, << >>)

\* the CNFs handed to propagate_real_intervals_cnf: up to two unit clauses
\* that bound a symbol or relate the two symbols, and one clause of one or
\* two literals over one term, which is a symbol or a sum
Constants == { RealConst(c) : c \in 0..MaxConst }

Sums == { Plus(<< Times(c, "x"), RealSymbol("y") >>) : c \in {-1, 0, 1} }

BoundsOf(term) ==
    UNION { { LT(term, c), LE(term, c), LT(c, term), LE(c, term) } : c \in Constants }

UnitLiterals ==
    BoundsOf(RealSymbol("x")) \cup BoundsOf(RealSymbol("y")) \cup
    { LE(RealSymbol("x"), RealSymbol("y")), LT(RealSymbol("y"), RealSymbol("x")) }

ClauseLiterals(term) ==
    BoundsOf(term) \cup { NotLit(LT(term, RealConst(0))), NotLit(LE(term, RealConst(0))) }

Clauses ==
    UNION { { shortcuts_Or({ Lit(l), Lit(m) }) :
              l \in ClauseLiterals(term), m \in ClauseLiterals(term) } :
            term \in {RealSymbol("x")} \cup Sums }

CnfFormulas ==
    { shortcuts_And({ Lit(u), Lit(v), clause }) :
      u \in UnitLiterals, v \in UnitLiterals, clause \in Clauses }

InitRip ==
    /\ IterIdle
    /\ ParetoIdle
    /\ NormalFormIdle
    /\ OptimizerIdle
    /\ DumpIdle
    /\ QEIdle
    /\ ConversionIdle
    /\ PrintingIdle
    /\ PostProcessIdle
    /\ IntervalIdle
    /\ SamplingIdle
    /\ ToAbIdle
    /\ rip_input \in CnfFormulas
    /\ rip_output = << >>

Propagate ==
    /\ rip_output = << >>
    /\ \E r \in propagate_real_intervals_cnf(rip_input) : rip_output' = << r >>
    /\ UNCHANGED rip_input
    /\ UNCHANGED besidesRip

SpecRip == InitRip /\ [][Propagate]_vars

-----------------------------------------------------------------------------
(* relaxer/logical/pysmt/rip.py, class Interval: an Interval object and the  *)
(* calls of its methods tighten, tighten_upper and tighten_lower.            *)

\* the bounds the methods are called with
MaxBound == 2

Bounds == { Bound(v, s) : v \in 0..MaxBound, s \in BOOLEAN }

\* Optional[Bound]: None is << >>
OptionalBounds == Bounds \cup { << >> }

\* Interval.tighten: only the upper bound is passed on
Interval_tighten(interval, upper, lower) ==
    IF upper # << >> THEN tighten_upper(interval, upper) ELSE interval

InitInterval ==
    /\ IterIdle
    /\ ParetoIdle
    /\ NormalFormIdle
    /\ RipIdle
    /\ OptimizerIdle
    /\ DumpIdle
    /\ QEIdle
    /\ ConversionIdle
    /\ PrintingIdle
    /\ PostProcessIdle
    /\ SamplingIdle
    /\ ToAbIdle
    /\ held_interval = WholeLine
    /\ tighten_call = << >>

TightenUpper ==
    \E upper \in Bounds :
        /\ held_interval' = tighten_upper(held_interval, upper)
        /\ tighten_call' = [method |-> "tighten_upper", upper |-> upper,
                            lower |-> << >>, before |-> held_interval]
        /\ UNCHANGED besidesInterval

TightenLower ==
    \E lower \in Bounds :
        /\ held_interval' = tighten_lower(held_interval, lower)
        /\ tighten_call' = [method |-> "tighten_lower", upper |-> << >>,
                            lower |-> lower, before |-> held_interval]
        /\ UNCHANGED besidesInterval

Tighten ==
    \E upper \in OptionalBounds, lower \in OptionalBounds :
        /\ held_interval' = Interval_tighten(held_interval, upper, lower)
        /\ tighten_call' = [method |-> "tighten", upper |-> upper,
                            lower |-> lower, before |-> held_interval]
        /\ UNCHANGED besidesInterval

NextInterval == TightenUpper \/ TightenLower \/ Tighten

SpecInterval == InitInterval /\ [][NextInterval]_vars

-----------------------------------------------------------------------------
(* relaxer/optimization/pycddlib.py and relaxer/optimization/optimization.py. *)
(* The double description of a term's polyhedron is computed by the cdd      *)
(* library: a term is given here by the vertices the library reports for it, *)
(* each with the unbounded mask added, and by no vertex when the term has no *)
(* solution. With grid_points = 2 the sampled line segment of two adjacent   *)
(* vertices consists of the two vertices themselves.                         *)

\* the vertices a term's polyhedron can have
Vertices == { <<0, 1>>, <<1, 0>>, <<1, Infinity>> }

\* the vertices at index i and after that no other vertex dominates
RECURSIVE undominated(_, _)
undominated(vertices, i) ==
    IF i > Len(vertices) THEN << >>
    ELSE (IF \E j \in DOMAIN vertices :
                j # i /\ dominates(vertices[j], vertices[i])
          THEN << >> ELSE << vertices[i] >>)
         \o undominated(vertices, i + 1)

\* output.add for each point of a sequence in turn: every set it can leave
RECURSIVE add_each(_, _)
add_each(output, ps) ==
    IF ps = << >> THEN { output }
    ELSE UNION { add_each(o, Tail(ps)) : o \in add(output, Head(ps)) }

\* Optimizer._maximize_conj_constraints: every content of output it can leave
maximize_conj_constraints(conj_constraints, output) ==
    IF Len(conj_constraints) = 0 THEN { output }
    ELSE add_each(output, undominated(conj_constraints, 1))

\* a faulty variant of maximize_con_relaxation: the solutions of a single
\* term are reported as not supported
maximize_con_relaxation_unsupported(conj_constraints) ==
    { [solutions |-> s, supported |-> FALSE] :
      s \in maximize_conj_constraints(conj_constraints, {}) }

\* Optimizer.maximize_con_relaxation
maximize_con_relaxation(conj_constraints) ==
    { [solutions |-> s, supported |-> TRUE] :
      s \in maximize_conj_constraints(conj_constraints, {}) }

\* the for loop of Optimizer.maximize_relaxation over the terms from term_idx
RECURSIVE terms_loop(_, _, _)
terms_loop(constraints, term_idx, output) ==
    IF term_idx > Len(constraints) THEN { output }
    ELSE UNION { terms_loop(constraints, term_idx + 1, o) :
                 o \in maximize_conj_constraints(constraints[term_idx], output) }

\* Optimizer.maximize_relaxation
Optimizer_maximize_relaxation(constraints) ==
    IF Len(constraints) = 1 THEN maximize_con_relaxation(constraints[1])
    ELSE { [solutions |-> s, supported |-> FALSE] :
           s \in terms_loop(constraints, 1, {}) }

\* HybridOptimizer.maximize_relaxation, both of its optimizers being a
\* pycddlib Optimizer
HybridOptimizer_maximize_relaxation(constraints) ==
    IF Len(constraints) = 1 THEN maximize_con_relaxation(constraints[1])
    ELSE Optimizer_maximize_relaxation(constraints)

\* the sequences over S of at most n elements
SeqUpTo(S, n) == UNION { [1..k -> S] : k \in 0..n }

\* the terms and the DNF formulas handed to an optimizer
Terms == SeqUpTo(Vertices, MaxVertices)

DNFFormulas == SeqUpTo(Terms, MaxTerms)

InitOptimizer ==
    /\ IterIdle
    /\ ParetoIdle
    /\ NormalFormIdle
    /\ RipIdle
    /\ DumpIdle
    /\ QEIdle
    /\ ConversionIdle
    /\ PrintingIdle
    /\ PostProcessIdle
    /\ IntervalIdle
    /\ SamplingIdle
    /\ ToAbIdle
    /\ dnf_terms \in DNFFormulas
    /\ optimizer \in {"pycddlib", "hybrid"}
    /\ optima = << >>

\* opt.maximize_relaxation(objectives, qf, strict_epsilon) of relax
MaximizeRelaxation ==
    /\ optima = << >>
    /\ \E r \in (IF optimizer = "hybrid"
                 THEN HybridOptimizer_maximize_relaxation(dnf_terms)
                 ELSE Optimizer_maximize_relaxation(dnf_terms)) :
          optima' = << r >>
    /\ UNCHANGED <<dnf_terms, optimizer>>
    /\ UNCHANGED besidesOptimizer

SpecOptimizer == InitOptimizer /\ [][MaximizeRelaxation]_vars

-----------------------------------------------------------------------------
(* relaxer/optimization/pycddlib.py, Optimizer._maximize_conj_constraints in *)
(* detail: the rows cdd reports, the split into vertices and rays, the       *)
(* adjacency list and the sampled line segments. Indices count from 1 here   *)
(* and from 0 in the code. A sampled coordinate is a rational with the       *)
(* denominator grid_points - 1; a point is held as the tuple of its          *)
(* numerators over that common denominator (step), math.inf as inf.          *)

MaxGridPoints == 3

\* a row of the V-representation: its type and its coordinates
VertexRow(x, y) == [type |-> "vertex", coords |-> <<x, y>>]

RayRow(x, y) == [type |-> "ray", coords |-> <<x, y>>]

\* double descriptions of polyhedra over two objectives, each with the pairs
\* of adjacent rows: no solution, a line segment, a triangle, a triangle
\* extended along a ray, a segment extended along a ray, and a quadrant
Polyhedra ==
    { [rows |-> << >>, adjacent |-> {}],
      [rows |-> << VertexRow(0, MaxCoord), VertexRow(MaxCoord, 0) >>,
       adjacent |-> {{1, 2}}],
      [rows |-> << VertexRow(0, MaxCoord), VertexRow(0, 0), VertexRow(MaxCoord, 0) >>,
       adjacent |-> {{1, 2}, {2, 3}, {1, 3}}],
      [rows |-> << VertexRow(0, MaxCoord), VertexRow(0, 0), VertexRow(MaxCoord, 0),
                   RayRow(1, 1) >>,
       adjacent |-> {{1, 2}, {2, 3}, {3, 4}, {1, 4}}],
      [rows |-> << VertexRow(0, 1), VertexRow(1, 0), RayRow(1, 0) >>,
       adjacent |-> {{1, 2}, {2, 3}, {1, 3}}],
      [rows |-> << VertexRow(0, 0), RayRow(1, 0), RayRow(0, 1) >>,
       adjacent |-> {{1, 2}, {2, 3}, {1, 3}}] }

\* the orders in which n rows can be reported
Orders(n) == { f \in [1..n -> 1..n] : \A a, b \in 1..n : f[a] = f[b] => a = b }

\* the denominator of the sampled coordinates
step(num) == IF num > 1 THEN num - 1 ELSE 1

\* a linspace whose samples all are the start value
linspace_constant(start, stop, num) ==
    [k \in 1..num |-> start * step(num)]

\* np.linspace(start, stop, num): the numerators over step(num)
linspace(start, stop, num) ==
    [k \in 1..num |-> start * step(num) + (k - 1) * (stop - start)]

\* the loop of _get_polygon_surfaces over the rows of ext
get_polygon_surfaces(rows, adjacency) ==
    [vertices |-> SelectSeq(rows, LAMBDA row : row.type = "vertex"),
     rays |-> SelectSeq(rows, LAMBDA row : row.type # "vertex"),
     adjacency |-> adjacency]

\* Optimizer._get_unbounded_mask
get_unbounded_mask(rays) ==
    [c \in 1..2 |-> IF \E r \in DOMAIN rays : rays[r].coords[c] # 0 THEN inf ELSE 0]

\* point + unbounded_mask
plus_mask(point, mask) ==
    [c \in 1..2 |-> IF mask[c] = inf THEN inf ELSE point[c] + mask[c]]

\* the dominated flags of lines 90-100
dominated_flags(vertices, mask) ==
    [i \in DOMAIN vertices |->
        \E j \in DOMAIN vertices :
            /\ j # i
            /\ dominates(plus_mask(vertices[j].coords, mask),
                         plus_mask(vertices[i].coords, mask))]

\* lines 113-119: the calls of output.add for the line segment of v and adj_v
line_segment(v, adj_v, thetas, mask, num, i, j) ==
    [k \in DOMAIN thetas |->
        [point |-> plus_mask([c \in 1..2 |-> v[c] * thetas[k]
                                             + adj_v[c] * (step(num) - thetas[k])],
                             mask),
         edge |-> <<i, j>>]]

\* the loop of line 109 over adjacency[i], from index j on
RECURSIVE adjacency_loop(_, _, _, _, _, _, _)
adjacency_loop(vertices, adjacency, flags, mask, num, i, j) ==
    IF j > Len(adjacency) THEN << >>
    ELSE (IF j \notin adjacency[i] THEN << >>
          ELSE IF j > Len(vertices) \/ j <= i \/ flags[j] THEN << >>
          ELSE line_segment(vertices[i].coords, vertices[j].coords,
                            linspace(1, 0, num), mask, num, i, j))
         \o adjacency_loop(vertices, adjacency, flags, mask, num, i, j + 1)

\* the loop of line 104 over the vertices, from index i on
RECURSIVE vertices_loop(_, _, _, _, _, _)
vertices_loop(vertices, adjacency, flags, mask, num, i) ==
    IF i > Len(vertices) THEN << >>
    ELSE (IF flags[i] THEN << >>
          ELSE << [point |-> plus_mask([c \in 1..2 |-> vertices[i].coords[c] * step(num)],
                                       mask),
                   edge |-> <<i>>] >>
               \o adjacency_loop(vertices, adjacency, flags, mask, num, i, 1))
         \o vertices_loop(vertices, adjacency, flags, mask, num, i + 1)

\* Optimizer._maximize_conj_constraints: the calls of output.add in turn,
\* each with the indices of the vertices it was computed from
sample_conj_constraints(rows, adjacency, num) ==
    LET s == get_polygon_surfaces(rows, adjacency)
        mask == get_unbounded_mask(s.rays)
    IN IF Len(s.vertices) = 0 /\ Len(s.rays) = 0 THEN << >>
       ELSE IF Len(s.vertices) = 0
       THEN << [point |-> plus_mask(<<0, 0>>, mask), edge |-> << >>] >>
       ELSE vertices_loop(s.vertices, s.adjacency,
                          dominated_flags(s.vertices, mask), mask, num, 1)

InitSampling ==
    /\ IterIdle
    /\ ParetoIdle
    /\ NormalFormIdle
    /\ RipIdle
    /\ OptimizerIdle
    /\ DumpIdle
    /\ QEIdle
    /\ ConversionIdle
    /\ PrintingIdle
    /\ PostProcessIdle
    /\ IntervalIdle
    /\ ToAbIdle
    /\ \E P \in Polyhedra :
          \E f \in Orders(Len(P.rows)) :
              /\ ext = [k \in 1..Len(P.rows) |-> P.rows[f[k]]]
              /\ ext_adjacency = [k \in 1..Len(P.rows) |->
                                     { m \in 1..Len(P.rows) : {f[k], f[m]} \in P.adjacent }]
    /\ grid_points \in 1..MaxGridPoints
    /\ sampled = << >>

\* Optimizer.maximize_con_relaxation for the term: output = ParetoSet(),
\* then _maximize_conj_constraints
MaximizeConRelaxation ==
    /\ sampled = << >>
    /\ LET calls == sample_conj_constraints(ext, ext_adjacency, grid_points)
       IN \E o \in add_each({}, [k \in DOMAIN calls |-> calls[k].point]) :
             sampled' = << [calls |-> calls, output |-> o] >>
    /\ UNCHANGED <<ext, ext_adjacency, grid_points>>
    /\ UNCHANGED besidesSampling

SpecSampling == InitSampling /\ [][MaximizeConRelaxation]_vars

-----------------------------------------------------------------------------
(* relaxer/io.py: the dump location handlers. A location is given by its    *)
(* name; the directory it stands for is not modelled.                       *)

\* the names a dump location is created with
DumpNames == 1..MaxNames

\* EmptyDumpLocationHandler.create_dump_location: whether it raises, and the
\* locations the handler holds afterwards
EmptyDumpLocationHandler_create_dump_location(locations, n) ==
    [raised |-> FALSE, locations |-> locations]

\* DirectoryLocationHandler.create_dump_location
DirectoryLocationHandler_create_dump_location(locations, n) ==
    IF n \in locations THEN [raised |-> TRUE, locations |-> locations]
    ELSE [raised |-> FALSE, locations |-> locations \cup {n}]

InitDump ==
    /\ IterIdle
    /\ ParetoIdle
    /\ NormalFormIdle
    /\ RipIdle
    /\ OptimizerIdle
    /\ QEIdle
    /\ ConversionIdle
    /\ PrintingIdle
    /\ PostProcessIdle
    /\ IntervalIdle
    /\ SamplingIdle
    /\ ToAbIdle
    /\ handler \in {"EmptyDumpLocationHandler", "DirectoryLocationHandler"}
    /\ dump_locations = {}
    /\ requested = << >>
    /\ create_result = << >>

\* dump_handler.create_dump_location(name)
CreateDumpLocation ==
    /\ Len(requested) < MaxCreates
    /\ \E n \in DumpNames :
          LET r == IF handler = "DirectoryLocationHandler"
                   THEN DirectoryLocationHandler_create_dump_location(dump_locations, n)
                   ELSE EmptyDumpLocationHandler_create_dump_location(dump_locations, n)
          IN /\ dump_locations' = r.locations
             /\ requested' = Append(requested, n)
             /\ create_result' = << [raised |-> r.raised, before |-> dump_locations] >>
    /\ UNCHANGED handler
    /\ UNCHANGED besidesDump

SpecDump == InitDump /\ [][CreateDumpLocation]_vars

-----------------------------------------------------------------------------
(* relaxer/logical/pysmt/quantifier.py: QuantifierEliminator.process over a *)
(* DFSTraceIterator, and the stats property read by relax. The conversion,  *)
(* the quantifier elimination by the solver and the post-processing of one  *)
(* bundle are taken to return: they change neither the iterator nor _width. *)

InitQE ==
    /\ system \in Systems
    /\ depth \in 0..MaxDepth
    /\ outcome = "new"
    /\ symbolic_trace = << >>
    /\ clock_resets = EmptyResets
    /\ trace_ineqs = << >>
    /\ property_formulas = << >>
    /\ transition_stack = << >>
    /\ bundle = NoBundle
    /\ emitted = << >>
    /\ errored = FALSE
    /\ ParetoIdle
    /\ NormalFormIdle
    /\ RipIdle
    /\ OptimizerIdle
    /\ DumpIdle
    /\ ConversionIdle
    /\ PrintingIdle
    /\ PostProcessIdle
    /\ IntervalIdle
    /\ SamplingIdle
    /\ ToAbIdle
    /\ qe_state = "process"
    /\ qe_width = << >>
    /\ qe_stats = << >>

\* the value w that enumerate hands out with the next bundle
enumerate_next(width) == IF width = << >> THEN 0 ELSE width[1]

\* process: the for statement calls iter() on the timed iterator; a
\* RuntimeError of the iterator leaves process
ProcessIter ==
    /\ qe_state = "process"
    /\ DFSTraceIterator_iter
    /\ qe_state' = IF outcome' = "error" THEN "raised" ELSE "process"
    /\ UNCHANGED <<qe_width, qe_stats>>
    /\ UNCHANGED besidesIterAndQE

\* process: the for statement calls next(); a bundle runs the loop body,
\* which sets _width = w + 1, and StopIteration ends the loop, after which
\* _convert_to_dnf either returns the DNF formula or raises
ProcessNext ==
    /\ qe_state = "process"
    /\ DFSTraceIterator_next
    /\ qe_state' \in CASE outcome' = "error" -> {"raised"}
                       [] outcome' = "stop" -> {"returned", "raised"}
                       [] OTHER -> {"process"}
    /\ qe_width' = IF outcome' = "bundle"
                   THEN << enumerate_next(qe_width) + 1 >>
                   ELSE qe_width
    /\ UNCHANGED qe_stats
    /\ UNCHANGED besidesIterAndQE

\* the stats property: reading self._width raises AttributeError while the
\* attribute is not set
stats(width) ==
    IF width = << >> THEN [raised |-> TRUE, number_of_traces |-> 0]
    ELSE [raised |-> FALSE, number_of_traces |-> width[1]]

\* qe.stats read once process has ended: stats.update(qe.stats) of relax
\* when it returned, a read by the caller when it raised
ReadStats ==
    /\ qe_state \in {"returned", "raised"}
    /\ qe_stats = << >>
    /\ qe_stats' = << stats(qe_width) >>
    /\ UNCHANGED <<qe_state, qe_width>>
    /\ UNCHANGED besidesQE

NextQE == ProcessIter \/ ProcessNext \/ ReadStats

SpecQE == InitQE /\ [][NextQE]_vars

-----------------------------------------------------------------------------
(* relaxer/logical/pysmt/conversion.py: from a pysmt conjunction to the set *)
(* of Inequality objects of a DNF term. The symbols x and y stand for the   *)
(* program's symbols delta_0 and relax_0. A Sum is the sequence of its      *)
(* summands.                                                                *)

\* pysmt_to_variable: variable_from_string of the symbol's name
pysmt_to_variable(n) ==
    IF n = "x" THEN DeltaVariable(0) ELSE RelaxationVariable(0)

\* pysmt_to_summands of the summands of a Plus node from index i on
RECURSIVE plus_summands(_, _)
plus_summands(summands, i) ==
    IF i > Len(summands) THEN << >>
    ELSE (IF summands[i].kind = "symbol"
          THEN << Summand(1, pysmt_to_variable(summands[i].name)) >>
          ELSE << Summand(summands[i].value, pysmt_to_variable(summands[i].name)) >>)
         \o plus_summands(summands, i + 1)

\* pysmt_to_summands: a constant is no linear relation and raises ValueError
pysmt_to_summands(term) ==
    CASE term.kind = "symbol" ->
            [raised |-> "", summands |-> << Summand(1, pysmt_to_variable(term.name)) >>]
      [] term.kind = "times" ->
            [raised |-> "",
             summands |-> << Summand(term.value, pysmt_to_variable(term.name)) >>]
      [] term.kind = "plus" ->
            [raised |-> "", summands |-> plus_summands(term.summands, 1)]
      [] OTHER -> [raised |-> "ValueError", summands |-> << >>]

\* pysmt_to_summands(Minus(left, right)): the summands of left, then those
\* of -1 * right, which is a summand only when right is a symbol
minus_summands(left, right) ==
    LET l == pysmt_to_summands(left)
    IN  IF l.raised # "" THEN l
        ELSE IF right.kind = "symbol"
        THEN [raised |-> "",
              summands |-> l.summands \o << Summand(-1, pysmt_to_variable(right.name)) >>]
        ELSE [raised |-> "AssertionError", summands |-> << >>]

\* inequality_from_pysmt
inequality_from_pysmt(literal) ==
    LET t == get_inequality_triple(literal)
        s == IF is_constant(t.right) THEN pysmt_to_summands(t.left)
             ELSE IF is_constant(t.left) THEN pysmt_to_summands(t.right)
             ELSE minus_summands(t.left, t.right)
        bound == IF is_constant(t.right) THEN t.right.value
                 ELSE IF is_constant(t.left) THEN t.left.value ELSE 0
        symbol == IF ~is_constant(t.right) /\ is_constant(t.left)
                  THEN turned(t.op) ELSE t.op
    IN  [raised |-> s.raised, inequality |-> Inequality(s.summands, symbol, bound)]

\* FNode.is_bool_op: AND, OR and NOT nodes are boolean operators, atoms are
\* not
is_bool_op(node) ==
    node.op \in {"and", "or"} \/ (node.op = "lit" /\ node.lit.negated)

\* pysmt_conjunction_to_inequalities: the set it returns, or what it raises
pysmt_conjunction_to_inequalities(conjunction) ==
    IF ~is_bool_op(conjunction)
    THEN LET r == inequality_from_pysmt(conjunction.lit)
         IN  [raised |-> r.raised,
              inequalities |-> IF r.raised = "" THEN { r.inequality } ELSE {}]
    ELSE IF conjunction.op # "and"
    THEN [raised |-> "AssertionError", inequalities |-> {}]
    ELSE LET rs == { inequality_from_pysmt(a.lit) : a \in conjunction.args }
         IN  IF \E r \in rs : r.raised # ""
             THEN [raised |-> (CHOOSE r \in rs : r.raised # "").raised,
                   inequalities |-> {}]
             ELSE [raised |-> "", inequalities |-> { r.inequality : r \in rs }]

\* the literals of the conjunctions handed in: a symbol or a sum against a
\* constant on either side, plain or negated, and one symbol against the
\* other
ConversionTerms ==
    { RealSymbol("x"), Plus(<< Times(-1, "x"), RealSymbol("y") >>) }

ConversionLiterals ==
    LET plain == UNION { BoundsOf(term) : term \in ConversionTerms }
                 \cup { LE(RealSymbol("x"), RealSymbol("y")) }
    IN  plain \cup { NotLit(l) : l \in plain }

Conjunctions ==
    { shortcuts_And({ Lit(l), Lit(m) }) : l \in ConversionLiterals,
                                          m \in ConversionLiterals }

InitConversion ==
    /\ IterIdle
    /\ ParetoIdle
    /\ NormalFormIdle
    /\ RipIdle
    /\ OptimizerIdle
    /\ DumpIdle
    /\ QEIdle
    /\ PrintingIdle
    /\ PostProcessIdle
    /\ IntervalIdle
    /\ SamplingIdle
    /\ ToAbIdle
    /\ conjunction_in \in Conjunctions
    /\ inequalities_out = << >>

\* pysmt_conjunction_to_inequalities(conjunction) of dnf_from_pysmt
ConjunctionToInequalities ==
    /\ inequalities_out = << >>
    /\ inequalities_out' = << pysmt_conjunction_to_inequalities(conjunction_in) >>
    /\ UNCHANGED conjunction_in
    /\ UNCHANGED besidesConversion

SpecConversion == InitConversion /\ [][ConjunctionToInequalities]_vars

-----------------------------------------------------------------------------
(* relaxer/logical/lra.py: printing and parsing of sums and inequalities. A *)
(* text is the sequence of its tokens: a decimal integer with its sign, an  *)
(* identifier prefix, or one of the characters " ", "+", "*", "/", "_". A   *)
(* Fraction is the record of its numerator and denominator in lowest terms. *)

Fraction(n, d) == [num |-> n, den |-> d]

\* the rational coefficients and right-hand sides
Fractions ==
    { Fraction(p[1], p[2]) :
      p \in { q \in ((-MaxNumerator)..MaxNumerator) \X (1..MaxDenominator) :
              \A k \in 2..q[2] : ~(q[1] % k = 0 /\ q[2] % k = 0) } }

\* the integers a token can denote
Literals == (-(MaxNumerator + MaxDenominator))..(MaxNumerator + MaxDenominator)

\* str(Fraction)
str_Fraction(q) ==
    IF q.den = 1 THEN << ToString(q.num) >>
    ELSE << ToString(q.num), "/", ToString(q.den) >>

\* float(text): the value of a decimal integer, ValueError for any other
\* text, "1/2" included
float(text) ==
    IF Len(text) = 1 /\ \E n \in Literals : ToString(n) = text[1]
    THEN [raised |-> "",
          value |-> Fraction(CHOOSE n \in Literals : ToString(n) = text[1], 1)]
    ELSE [raised |-> "ValueError", value |-> Fraction(0, 1)]

\* Variable.__str__: the identifier delta_<depth> or relax_<relaxation_idx>
str_Variable(var) == << var[1], "_", ToString(var[2]) >>

\* variable_from_string
variable_from_string(text) ==
    IF /\ Len(text) = 3
       /\ text[1] \in {"delta", "relax"}
       /\ text[2] = "_"
       /\ \E n \in Literals : ToString(n) = text[3]
    THEN [raised |-> "",
          var |-> << text[1], CHOOSE n \in Literals : ToString(n) = text[3] >>]
    ELSE [raised |-> "ValueError", var |-> << "delta", 0 >>]

\* sep.join(texts)
RECURSIVE join(_, _)
join(sep, texts) ==
    IF texts = << >> THEN << >>
    ELSE IF Len(texts) = 1 THEN texts[1]
    ELSE texts[1] \o sep \o join(sep, Tail(texts))

\* text.split(sep) for a separator of one character: the pieces between the
\* separators, empty ones included
RECURSIVE split(_, _)
split(text, sep) ==
    IF \A i \in DOMAIN text : text[i] # sep THEN << text >>
    ELSE LET i == CHOOSE j \in DOMAIN text :
                      text[j] = sep /\ \A k \in 1..(j - 1) : text[k] # sep
         IN  << SubSeq(text, 1, i - 1) >>
             \o split(SubSeq(text, i + 1, Len(text)), sep)

\* text.split(): the pieces between runs of white space
split_whitespace(text) == SelectSeq(split(text, " "), LAMBDA piece : piece # << >>)

\* text.strip()
RECURSIVE strip(_)
strip(text) ==
    IF text # << >> /\ text[1] = " " THEN strip(Tail(text))
    ELSE IF text # << >> /\ text[Len(text)] = " "
    THEN strip(SubSeq(text, 1, Len(text) - 1))
    ELSE text

\* Sum.__str__
str_Sum(summands) ==
    IF summands = << >> THEN << "0" >>
    ELSE join(<< " ", "+", " " >>,
              [i \in DOMAIN summands |->
                 str_Fraction(summands[i].coefficient) \o << "*" >>
                 \o str_Variable(summands[i].var)])

\* the for loop of Sum.from_string over the pieces from index i on
RECURSIVE from_string_loop(_, _)
from_string_loop(pieces, i) ==
    IF i > Len(pieces) THEN [raised |-> "", summands |-> << >>]
    ELSE LET summand_str == strip(pieces[i])
             parts == split(summand_str, "*")
             rest == from_string_loop(pieces, i + 1)
         IN  IF summand_str = << "0" >> THEN rest
             ELSE IF Len(parts) # 2
             THEN [raised |-> "ValueError", summands |-> << >>]
             ELSE IF float(parts[1]).raised # ""
             THEN [raised |-> "ValueError", summands |-> << >>]
             ELSE IF variable_from_string(parts[2]).raised # ""
             THEN [raised |-> "ValueError", summands |-> << >>]
             ELSE IF rest.raised # "" THEN rest
             ELSE [raised |-> "",
                   summands |-> << Summand(float(parts[1]).value,
                                           variable_from_string(parts[2]).var) >>
                                \o rest.summands]

\* Sum.from_string
Sum_from_string(s) == from_string_loop(split(s, "+"), 1)

\* Sum.__eq__: every summand occurs equally often in both sums
Sum_eq(self, other) ==
    \A summand \in Range(self) \cup Range(other) :
        Cardinality({ i \in DOMAIN self : self[i] = summand })
        = Cardinality({ i \in DOMAIN other : other[i] = summand })

\* Inequality.__str__
str_Inequality(i) ==
    str_Sum(i.left) \o << " ", i.symbol, " " >> \o str_Fraction(i.right)

\* Inequality.from_string
Inequality_from_string(s) ==
    LET splits == split_whitespace(s)
        n == Len(splits)
        left == Sum_from_string(join(<< " " >>, SubSeq(splits, 1, n - 2)))
        right == float(splits[n])
    IN  IF n < 2 THEN [raised |-> "IndexError", inequality |-> << >>]
        ELSE IF left.raised # "" \/ right.raised # ""
                \/ splits[n - 1] \notin { << o >> : o \in {">", "<", ">=", "<="} }
        THEN [raised |-> "ValueError", inequality |-> << >>]
        ELSE [raised |-> "",
              inequality |-> Inequality(left.summands, splits[n - 1][1], right.value)]

\* the equality the dataclass Inequality generates: field by field
Inequality_eq(self, other) ==
    /\ Sum_eq(self.left, other.left)
    /\ self.symbol = other.symbol
    /\ self.right = other.right

\* the sums and inequalities printed
PrintedVariables == { DeltaVariable(0), RelaxationVariable(1) }

PrintedSummands == { Summand(q, v) : q \in Fractions, v \in PrintedVariables }

PrintedSums == UNION { [1..k -> PrintedSummands] : k \in 0..MaxSummands }

Inequalities ==
    { Inequality(s, o, q) :
      s \in PrintedSums, o \in {">", "<", ">=", "<="}, q \in Fractions }

InitPrinting ==
    /\ IterIdle
    /\ ParetoIdle
    /\ NormalFormIdle
    /\ RipIdle
    /\ OptimizerIdle
    /\ DumpIdle
    /\ QEIdle
    /\ ConversionIdle
    /\ PostProcessIdle
    /\ IntervalIdle
    /\ SamplingIdle
    /\ ToAbIdle
    /\ lra_object \in { << i >> : i \in Inequalities }
    /\ round_trip = << >>

\* Sum.from_string(str(s)) for the left side of the inequality
SumRoundTrip ==
    /\ round_trip = << >>
    /\ round_trip' = << [of |-> "Sum",
                         parsed |-> Sum_from_string(str_Sum(lra_object[1].left))] >>
    /\ UNCHANGED lra_object
    /\ UNCHANGED besidesPrinting

\* Inequality.from_string(str(i))
InequalityRoundTrip ==
    /\ round_trip = << >>
    /\ round_trip' = << [of |-> "Inequality",
                         parsed |-> Inequality_from_string(str_Inequality(lra_object[1]))] >>
    /\ UNCHANGED lra_object
    /\ UNCHANGED besidesPrinting

NextPrinting == SumRoundTrip \/ InequalityRoundTrip

SpecPrinting == InitPrinting /\ [][NextPrinting]_vars

-----------------------------------------------------------------------------
(* The conjunctions that _convert_to_dnf hands to CNFTransformer: And over   *)
(* the accumulated formulas, of which one is itself a conjunction of         *)
(* clauses; and their duals, handed to DNFTransformer.                       *)

\* the clauses (inner = "or") or terms (inner = "and"): a symbol, or two
\* symbols under the inner operator
Junctions(inner) ==
    { IF Cardinality(S) = 1 THEN CHOOSE f \in S : TRUE
      ELSE [op |-> inner, name |-> 0, args |-> SetToBag(S)] :
      S \in { T \in SUBSET { Symbol(i) : i \in 1..MaxAtoms } :
               Cardinality(T) \in {1, 2} } }

NestedJunctions(outer, inner) ==
    { [op |-> outer, name |-> 0,
       args |-> SetToBag({ [op |-> outer, name |-> 0, args |-> SetToBag({c, d})], e })] :
      <<c, d>> \in { p \in Junctions(inner) \X Junctions(inner) : p[1] # p[2] },
      e \in Junctions(inner) }

InitNested ==
    /\ IterIdle
    /\ ParetoIdle
    /\ RipIdle
    /\ OptimizerIdle
    /\ DumpIdle
    /\ QEIdle
    /\ ConversionIdle
    /\ PrintingIdle
    /\ PostProcessIdle
    /\ IntervalIdle
    /\ SamplingIdle
    /\ ToAbIdle
    /\ in_formula \in NestedJunctions("and", "or") \cup NestedJunctions("or", "and")
    /\ transformer = "none"
    /\ out_formula = << >>

NextNested == CNFTransform \/ DNFTransform

SpecNested == InitNested /\ [][NextNested]_vars

-----------------------------------------------------------------------------
(* relaxer/logical/pysmt/quantifier.py: _post_process of one bundle. The    *)
(* transformers and the interval propagation work on the same pysmt nodes;  *)
(* as_lra reads a node of the transformers' model as a node of the          *)
(* propagation's model and as_bool the other way, symbol i being the atom   *)
(* AtomTable[i].                                                            *)

AtomTable ==
    << LE(RealSymbol("x"), RealConst(0)), LE(RealSymbol("x"), RealConst(1)),
       LE(RealSymbol("y"), RealConst(0)), LE(RealConst(1), RealSymbol("y")),
       LE(RealSymbol("x"), RealSymbol("y")) >>

RECURSIVE as_lra(_)
as_lra(f) ==
    CASE f.op = "symbol" -> Lit(AtomTable[f.name])
      [] f.op = "not" -> Lit(NotLit(AtomTable[arg0(f).name]))
      [] f.op = "true" -> shortcuts_TRUE
      [] f.op = "false" -> shortcuts_FALSE
      [] OTHER -> [op |-> f.op, lit |-> NoLiteral,
                   args |-> { as_lra(c) : c \in args_of(f) }]

RECURSIVE as_bool(_)
as_bool(node) ==
    CASE node.op = "lit" ->
            LET s == Symbol(CHOOSE i \in DOMAIN AtomTable :
                               AtomTable[i] = [node.lit EXCEPT !.negated = FALSE])
            IN  IF node.lit.negated THEN manager_Not(s) ELSE s
      [] node.op = "true" -> manager_TRUE
      [] node.op = "false" -> manager_FALSE
      [] OTHER -> [op |-> node.op, name |-> 0,
                   args |-> SetToBag({ as_bool(c) : c \in node.args })]

\* a variant of _post_process that transforms the propagated formula to CNF
\* once more before returning it
post_process_cnf_again(qf) ==
    UNION { IF c.raised THEN { [raised |-> "AssertionError", f |-> shortcuts_TRUE] }
            ELSE UNION { IF r.raised # "" THEN { r }
                         ELSE { IF t.raised
                                THEN [raised |-> "AssertionError", f |-> shortcuts_TRUE]
                                ELSE [raised |-> "", f |-> as_lra(t.f)] :
                                t \in transform("cnf", as_bool(r.f)) } :
                         r \in propagate_real_intervals_cnf(as_lra(c.f)) } :
            c \in transform("cnf", qf) }

\* QuantifierEliminator._post_process: CNFTransformer().transform(qf), then
\* propagate_real_intervals_cnf, whose result is returned
post_process(qf) ==
    UNION { IF c.raised THEN { [raised |-> "AssertionError", f |-> shortcuts_TRUE] }
            ELSE propagate_real_intervals_cnf(as_lra(c.f)) :
            c \in transform("cnf", qf) }

\* the quantifier-free results: a bound on x and two clauses of two or three
\* literals
PostLiterals ==
    { Symbol(1), manager_Not(Symbol(2)), Symbol(3), Symbol(4), Symbol(5),
      manager_Not(Symbol(3)) }

PostClauses ==
    { manager_Or(SetToBag(S)) :
      S \in { T \in SUBSET PostLiterals : Cardinality(T) \in {2, 3} } }

OracleResults ==
    { manager_And(SetToBag({u, c, d})) :
      u \in {Symbol(1), Symbol(2)}, c \in PostClauses, d \in PostClauses }

InitPostProcess ==
    /\ IterIdle
    /\ ParetoIdle
    /\ NormalFormIdle
    /\ RipIdle
    /\ OptimizerIdle
    /\ DumpIdle
    /\ QEIdle
    /\ ConversionIdle
    /\ PrintingIdle
    /\ IntervalIdle
    /\ SamplingIdle
    /\ ToAbIdle
    /\ oracle_result \in { << q >> : q \in OracleResults }
    /\ accumulated = << >>

\* formula = self._post_process(w, qf); formulas.add(formula)
PostProcess ==
    /\ accumulated = << >>
    /\ \E r \in post_process(oracle_result[1]) :
          accumulated' = << [raised |-> r.raised,
                             formulas |-> IF r.raised = "" THEN { r.f } ELSE {}] >>
    /\ UNCHANGED oracle_result
    /\ UNCHANGED besidesPostProcess

SpecPostProcess == InitPostProcess /\ [][PostProcess]_vars

-----------------------------------------------------------------------------
(* relaxer/optimization/scipy.py, ScalarizationOptimizer._to_A_b: the rows   *)
(* of A and b for the inequalities of a disjunct, in fractions.Fraction      *)
(* arithmetic. The objectives are relax_0 and relax_1; every variable of the *)
(* inequalities is one of them (any other one raises KeyError at line 131).  *)

MaxCoefficient == 1

MaxRows == 2

RECURSIVE gcd(_, _)
gcd(a, b) == IF b = 0 THEN a ELSE gcd(b, a % b)

\* Fraction(numerator, denominator) for a positive denominator: lowest terms
Fraction_of(n, d) ==
    LET g == gcd(IF n < 0 THEN -n ELSE n, d)
    IN Fraction(n \div g, d \div g)

\* Fraction.__add__, __sub__ and __mul__
Fraction_add(p, q) == Fraction_of(p.num * q.den + q.num * p.den, p.den * q.den)

Fraction_sub(p, q) == Fraction_of(p.num * q.den - q.num * p.den, p.den * q.den)

Fraction_mul(p, q) == Fraction_of(p.num * q.num, p.den * q.den)

Objectives == << RelaxationVariable(0), RelaxationVariable(1) >>

\* var_to_idx of lines 106-108
var_to_idx(var) == var[2]

\* factor of lines 116-121
row_factor(inequality) ==
    IF inequality.symbol \in {">=", ">"} THEN Fraction(-1, 1) ELSE Fraction(1, 1)

\* Inequality.is_strict
is_strict(inequality) == inequality.symbol \in {">", "<"}

\* b[i] with the offset taken off before the factor is applied
row_bound_offset_turned(inequality, strict_epsilon) ==
    Fraction_mul(Fraction_sub(inequality.right,
                              IF is_strict(inequality) THEN strict_epsilon
                              ELSE Fraction(0, 1)),
                 row_factor(inequality))

\* b[i] of lines 123-128
row_bound(inequality, strict_epsilon) ==
    Fraction_sub(Fraction_mul(inequality.right, row_factor(inequality)),
                 IF is_strict(inequality) THEN strict_epsilon ELSE Fraction(0, 1))

\* the loop of lines 130-133 over the summands from index k on
RECURSIVE row_loop(_, _, _, _)
row_loop(row, summands, factor, k) ==
    IF k > Len(summands) THEN row
    ELSE LET idx == var_to_idx(summands[k].var)
         IN row_loop([row EXCEPT ![idx] =
                         Fraction_add(row[idx],
                                      Fraction_mul(factor, summands[k].coefficient))],
                     summands, factor, k + 1)

\* ScalarizationOptimizer._to_A_b
to_A_b(objectives, inequalities, strict_epsilon) ==
    [A |-> [i \in DOMAIN inequalities |->
               row_loop([idx \in 0..(Len(objectives) - 1) |-> Fraction(0, 1)],
                        inequalities[i].left, row_factor(inequalities[i]), 1)],
     b |-> [i \in DOMAIN inequalities |-> row_bound(inequalities[i], strict_epsilon)]]

\* the coefficients and right-hand sides of the rows
RowFractions ==
    { Fraction(n, 1) : n \in (-MaxCoefficient)..MaxCoefficient } \cup { Fraction(1, 2) }

RowSummands ==
    { Summand(q, Objectives[v]) : q \in RowFractions, v \in DOMAIN Objectives }

RowInequalities ==
    { Inequality(s, o, q) :
      s \in UNION { [1..k -> RowSummands] : k \in 0..MaxRows },
      o \in {">", "<", ">=", "<="}, q \in RowFractions }

\* the disjuncts: one inequality, or one followed by a bound on relax_0
Disjuncts ==
    { << a >> : a \in RowInequalities } \cup
    { << a, Inequality(<< Summand(Fraction(1, 1), Objectives[1]) >>, o, Fraction(0, 1)) >> :
      a \in RowInequalities, o \in {">", "<", ">=", "<="} }

InitToAb ==
    /\ IterIdle
    /\ ParetoIdle
    /\ NormalFormIdle
    /\ RipIdle
    /\ OptimizerIdle
    /\ DumpIdle
    /\ QEIdle
    /\ ConversionIdle
    /\ PrintingIdle
    /\ PostProcessIdle
    /\ IntervalIdle
    /\ SamplingIdle
    /\ \E d \in Disjuncts, e \in { Fraction(1, 10), Fraction(1, 2) } :
          to_A_b_args = [inequalities |-> d, strict_epsilon |-> e]
    /\ A_b = << >>

\* ScalarizationOptimizer._to_A_b(objectives, conj_constraints, strict_epsilon)
ToAb ==
    /\ A_b = << >>
    /\ A_b' = << to_A_b(Objectives, to_A_b_args.inequalities,
                        to_A_b_args.strict_epsilon) >>
    /\ UNCHANGED to_A_b_args
    /\ UNCHANGED besidesToAb

SpecToAb == InitToAb /\ [][ToAb]_vars

-----------------------------------------------------------------------------
(* What the claims are stated over. *)

\* the bundle returned by the last call, its popped depth and its path
LastBundle == bundle[1]

LastDepth == emitted[Len(emitted)].depth

LastPath == emitted[Len(emitted)].path

IsPrefix(p, q) == Len(p) <= Len(q) /\ SubSeq(q, 1, Len(p)) = p

\* the transition paths of length 1..k from the initial state
AllPaths(sys, k) ==
    UNION { { p \in [1..n -> 1..Len(sys.trans)] :
                /\ source(sys, p[1]) = sys.initial_state
                /\ \A i \in 1..(n - 1) : target(sys, p[i]) = source(sys, p[i + 1]) } :
            n \in 1..k }

\* the symbolic states a path visits, the initial state first
StatesAlong(sys, p) ==
    << symbolic(sys, sys.initial_state) >>
      \o [i \in 1..Len(p) |-> symbolic(sys, target(sys, p[i]))]

\* the number of paths of length 1..n that start in state s
RECURSIVE PathsFrom(_, _, _)
PathsFrom(sys, s, n) ==
    IF n <= 0 THEN 0
    ELSE LET out == outgoing_transitions(sys, s)
             F[i \in 0..Len(out)] ==
                 IF i = 0 THEN 0
                 ELSE F[i - 1] + 1 + PathsFrom(sys, target(sys, out[i]), n - 1)
         IN  F[Len(out)]

\* the number of __next__ calls the entries of the stack still stand for
Rank ==
    LET F[i \in 0..Len(transition_stack)] ==
            IF i = 0 THEN 0
            ELSE F[i - 1] + 1
                   + PathsFrom(system,
                               target(system, transition_stack[i].transition),
                               depth - transition_stack[i].depth)
    IN  F[Len(transition_stack)]

-----------------------------------------------------------------------------
\* C1: every bundle __next__ returns, for a popped depth d, has 1 <= d <= k,
\* d+1 symbolic states, delta variables, inequality sets and property sets,
\* and its delta variables are exactly delta_0 .. delta_d.
C1_BundleShape ==
    bundle # NoBundle =>
        LET b == LastBundle
            d == LastDepth
        IN  /\ 1 <= d /\ d <= depth
            /\ Len(b.symbolic_trace) = d + 1
            /\ Len(b.delta_variables) = d + 1
            /\ Len(b.inequalities) = d + 1
            /\ Len(b.property_formulas) = d + 1
            /\ \A j \in 0..d : b.delta_variables[j + 1] = <<"delta", j>>

\* a bundle of the greatest depth returned after the iterator backtracked
C1_Witness ==
    /\ bundle # NoBundle
    /\ Len(emitted) >= 3
    /\ LastDepth = depth
    /\ depth >= 2
    /\ emitted[Len(emitted) - 1].depth >= LastDepth

\* C2: an iteration that ran to StopIteration without a raise returned one
\* bundle per transition path of length 1..k from the initial state: every
\* path once, none twice, with the symbolic states along the path as its
\* symbolic trace.
C2_OneBundlePerPath ==
    /\ bundle # NoBundle => LastBundle.symbolic_trace = StatesAlong(system, LastPath)
    /\ (outcome = "stop" /\ ~errored) =>
          /\ { emitted[i].path : i \in 1..Len(emitted) } = AllPaths(system, depth)
          /\ Len(emitted) = Cardinality(AllPaths(system, depth))

C2_Witness ==
    /\ outcome = "stop"
    /\ ~errored
    /\ Len(emitted) >= 6
    /\ \E i \in 1..Len(emitted) :
          \E j \in 1..(Len(emitted[i].path) - 1) :
             source(system, emitted[i].path[j]) = target(system, emitted[i].path[j + 1])

\* one __next__ call, as C3 reads it
C3_CallLowersRank ==
    outcome \in {"iter", "bundle", "error"} =>
        IF transition_stack = << >>
        THEN outcome' = "stop"
        ELSE Rank' < Rank

\* C3: every __next__ call on a non-empty stack lowers the number of calls the
\* stack still stands for (a natural number, computed from the depth bound
\* alone, cycles or not), and a call on the empty stack raises StopIteration:
\* StopIteration is raised after finitely many calls.
C3_Terminates == [][C3_CallLowersRank]_vars

\* StopIteration after bundles of a system with a cycle
C3_Witness ==
    /\ outcome = "stop"
    /\ Len(emitted) >= 4
    /\ \E t \in 1..Len(system.trans) : source(system, t) = target(system, t)

\* C4: the bundles are returned in depth-first pre-order of the LIFO stack:
\* no path after one of its extensions, the extensions of a path
\* consecutively, and of two transitions leaving the same state after the
\* same path the one pushed later first.
C4_DepthFirstOrder ==
    \A l \in {Len(emitted)} \ {0} :
        \A i \in 1..(l - 1) :
            LET p == emitted[i].path
                q == emitted[l].path
            IN  /\ ~(IsPrefix(q, p) /\ q # p)
                /\ q # p
                /\ IsPrefix(p, q) =>
                      \A j \in (i + 1)..(l - 1) : IsPrefix(p, emitted[j].path)
                /\ (Len(p) = Len(q)
                    /\ SubSeq(p, 1, Len(p) - 1) = SubSeq(q, 1, Len(q) - 1))
                      => p[Len(p)] > q[Len(q)]
                /\ Len(q) > 1 =>
                      \E j \in 1..(l - 1) :
                          emitted[j].path = SubSeq(q, 1, Len(q) - 1)

\* a sibling explored after all extensions of the transition pushed after it
C4_Witness ==
    /\ Len(emitted) >= 3
    /\ Len(LastPath) = 1
    /\ Len(emitted[Len(emitted) - 1].path) >= 2
    /\ emitted[1].path[1] > LastPath[1]

-----------------------------------------------------------------------------
\* the summands 1*delta_lo, ..., 1*delta_(hi-1)
DeltaSum(lo, hi) ==
    [i \in 1..(IF hi > lo THEN hi - lo ELSE 0) |->
        [coefficient |-> 1, var |-> <<"delta", lo + i - 1>>]]

\* the greatest element of a finite set of numbers that holds 0
Greatest(S) == CHOOSE m \in S : \A n \in S : n <= m

\* the greatest depth 1..j at which a transition of path p resets clock c
\* (0 when there is none)
LastResetOnPath(sys, p, j, c) ==
    Greatest({0} \cup { i \in 1..j : \E edge \in edges(sys, p[i]) : c \in edge.resets })

\* C6: _substitute_clock(d, c) is the sum delta_r + ... + delta_(d-1) for the
\* greatest recorded reset r <= d of c (0 when there is none; the empty sum
\* when r = d), and a guard taken at target depth d is encoded over that sum
\* at depth d-1 plus delta_(d-1), whatever the same transition resets.
C6_ClockSubstitution ==
    /\ \A c \in Clocks : \A d \in 0..depth :
          substitute_clock(depth, clock_resets, d, c)
            = DeltaSum(Greatest({0} \cup { r \in Range(clock_resets[c]) : r <= d }), d)
    /\ bundle # NoBundle =>
          LET d == LastDepth
              t == LastPath[d]
          IN  \A edge \in edges(system, t) : \A guard \in edge.guards :
                 LET r   == LastResetOnPath(system, LastPath, d - 1, guard.clock)
                     sum == WithRelaxation(DeltaSum(r, d),
                                           encoded_relaxation(system, guard))
                 IN  encoded_clock_constraint(guard, sum).out
                        \subseteq LastBundle.inequalities[d + 1]

\* a guard on a clock that the same transition resets, and that an earlier
\* transition of the path reset too
C6_Witness ==
    /\ bundle # NoBundle
    /\ LastDepth >= 3
    /\ clock_resets["x"] = << 2, 3 >>
    /\ \E edge \in edges(system, LastPath[LastDepth]) :
          \E guard \in edge.guards : guard.clock = "x"

\* C7: an inequality that carries a relaxation variable carries it with
\* coefficient +1 when its symbol is >= or > and with -1 when it is <= or <.
C7_RelaxationSign ==
    bundle # NoBundle =>
        \A j \in 1..Len(LastBundle.inequalities) :
            \A ineq \in LastBundle.inequalities[j] :
                \A i \in 1..Len(ineq.left) :
                    ineq.left[i].var[1] = "relax" =>
                        /\ ineq.symbol \in {">=", ">"} => ineq.left[i].coefficient = 1
                        /\ ineq.symbol \in {"<=", "<"} => ineq.left[i].coefficient = -1

\* the clock constraints a call encodes: guards of the transition taken (E),
\* invariants of the state entered, clock atoms of its safety properties
RECURSIVE ClockAtoms(_)
ClockAtoms(property) ==
    CASE property.kind = "BooleanOr" \/ property.kind = "BooleanAnd" ->
           ClockAtoms(property.left) \cup ClockAtoms(property.right)
      [] property.kind = "BooleanNot" -> ClockAtoms(property.argument)
      [] property.kind = "LocationPredicate" -> {}
      [] OTHER -> {property.constraint}

TraceConstraints(sys, E, s) ==
    UNION { edge.guards : edge \in E }
      \cup UNION { location.invariants : location \in symbolic(sys, s) }

EncodedConstraints(sys, E, s) ==
    TraceConstraints(sys, E, s)
      \cup UNION { ClockAtoms(property) : property \in safety_properties(sys, s) }

\* the (symbol, limit) pairs a clock constraint stands for
SymbolsOf(constraint) ==
    IF constraint.operator = "=="
    THEN { <<">=", constraint.limit>>, <<"<=", constraint.limit>> }
    ELSE { <<constraint.operator, constraint.limit>> }

\* C8: '==' is encoded as the two inequalities >= and <= over the same sum and
\* limit, each of <, <=, >, >= as one inequality with that symbol, and '!='
\* raises and adds nothing: a returned bundle holds, at its last depth, exactly
\* the symbols of the constraints encoded there (and of urgency), none of
\* which is '!='; a call raises only on a system that holds '!='.
C8_OperatorEncoding ==
    /\ \A c \in EncodedConstraints(system, UNION { edges(system, t) :
                                                   t \in 1..Len(system.trans) }, "A")
              \cup EncodedConstraints(system, {}, "B") :
          LET sum == DeltaSum(0, 1)
              enc == encoded_clock_constraint(c, sum)
          IN  /\ enc.raised <=> c.operator = "!="
              /\ enc.out = IF c.operator = "!=" THEN {}
                           ELSE { [left |-> sum, symbol |-> sy[1], right |-> sy[2]] :
                                  sy \in SymbolsOf(c) }
    /\ bundle # NoBundle =>
          LET d == LastDepth
              t == LastPath[d]
              s == target(system, t)
          IN  /\ \A c \in EncodedConstraints(system, edges(system, t), s) :
                    c.operator # "!="
              /\ { <<ineq.symbol, ineq.right>> : ineq \in LastBundle.inequalities[d + 1] }
                   = UNION { SymbolsOf(c) :
                             c \in TraceConstraints(system, edges(system, t), s) }
                       \cup (IF \E l \in symbolic(system, s) : l.urgent
                             THEN { <<"<=", 0>>, <<">=", 0>> } ELSE {})
    /\ outcome = "error" => (system.op = "!=" /\ bundle = NoBundle)

\* a call that raised on '!=' after bundles were returned
C8_Witness ==
    /\ outcome = "error"
    /\ Len(emitted) >= 2
    /\ system.op = "!="

\* C9: in every returned bundle, at every depth whose state holds an urgent
\* location, the inequalities of that depth hold delta_d <= 0 and delta_d >= 0.
C9_UrgentNoDelay ==
    bundle # NoBundle =>
        \A j \in 1..Len(LastBundle.symbolic_trace) :
            (\E l \in LastBundle.symbolic_trace[j] : l.urgent) =>
                LET delta_sum == << [coefficient |-> 1, var |-> <<"delta", j - 1>>] >>
                IN  /\ [left |-> delta_sum, symbol |-> "<=", right |-> 0]
                          \in LastBundle.inequalities[j]
                    /\ [left |-> delta_sum, symbol |-> ">=", right |-> 0]
                          \in LastBundle.inequalities[j]

\* a bundle returned after backtracking whose first and last states are urgent
C9_Witness ==
    /\ bundle # NoBundle
    /\ Len(emitted) >= 3
    /\ LastDepth < emitted[Len(emitted) - 1].depth
    /\ \E l \in LastBundle.symbolic_trace[1] : l.urgent
    /\ \E l \in LastBundle.symbolic_trace[LastDepth + 1] : l.urgent

-----------------------------------------------------------------------------
\* C10: after any sequence of add calls no stored point dominates another
\* stored point (>= in every coordinate, > in at least one), points with
\* infinite coordinates included.
C10_NoDominatedPoint ==
    \A x \in points : \A y \in points :
        x # y =>
            ~(/\ x[1] >= y[1] /\ x[2] >= y[2]
              /\ (x[1] > y[1] \/ x[2] > y[2]))

\* an add that removed a dominated point and left two points, one of them
\* with an infinite coordinate
C10_Witness ==
    /\ last_add # << >>
    /\ last_add[1].before \ points # {}
    /\ Cardinality(points) >= 2
    /\ \E x \in points : x[1] = Infinity \/ x[2] = Infinity

-----------------------------------------------------------------------------
\* C11: ParetoSet.add(p) leaves the set unchanged when some stored point
\* dominates p (none is removed); otherwise it removes exactly the stored
\* points p dominates, inserts p and keeps every other point; adding a
\* point already stored leaves the set unchanged.
C11_AddEffect ==
    last_add # << >> =>
        LET p == last_add[1].p
            before == last_add[1].before
            beaten == { q \in before : /\ p[1] >= q[1] /\ p[2] >= q[2]
                                       /\ (p[1] > q[1] \/ p[2] > q[2]) }
            beats == { q \in before : /\ q[1] >= p[1] /\ q[2] >= p[2]
                                      /\ (q[1] > p[1] \/ q[2] > p[2]) }
        IN /\ beats # {} => points = before
           /\ beats = {} => points = (before \ beaten) \cup {p}
           /\ p \in before => points = before

\* an add rejected by a dominating stored point, on a set of two points
C11_Witness ==
    /\ last_add # << >>
    /\ Cardinality(last_add[1].before) >= 2
    /\ last_add[1].p \notin last_add[1].before
    /\ \E q \in last_add[1].before : dominates(q, last_add[1].p)
    /\ points = last_add[1].before

-----------------------------------------------------------------------------
\* C12: the content of a ParetoSet after adding a finite collection of
\* points does not depend on the order of the add calls: after every
\* sequence of adds the set is the set of the points handed so far that no
\* other point handed so far dominates, which is the same for every
\* permutation of the sequence.
C12_OrderIndependent ==
    LET coll == { offered[i] : i \in 1..Len(offered) }
        beats(x, y) == /\ x[1] >= y[1] /\ x[2] >= y[2]
                       /\ (x[1] > y[1] \/ x[2] > y[2])
    IN points = { x \in coll : ~\E y \in coll : beats(y, x) }

\* three distinct points were added, the dominated one neither first nor
\* last, and two of them are left
C12_Witness ==
    /\ Len(offered) = 3
    /\ Cardinality({ offered[i] : i \in 1..3 }) = 3
    /\ dominates(offered[3], offered[2])
    /\ ~dominates(offered[2], offered[1])
    /\ ~dominates(offered[1], offered[2])
    /\ Cardinality(points) = 2

-----------------------------------------------------------------------------
\* what the last transform call returned
Returned == out_formula[1]

\* Not is applied to symbols only
RECURSIVE NotOnAtomsOnly(_)
NotOnAtomsOnly(f) ==
    /\ f.op = "not" => arg0(f).op = "symbol"
    /\ \A c \in args_of(f) : NotOnAtomsOnly(c)

\* no `inner` node below an `outer` node; under: an outer node is above f
RECURSIVE NoNesting(_, _, _, _)
NoNesting(f, outer, inner, under) ==
    /\ ~(under /\ f.op = inner)
    /\ \A c \in args_of(f) : NoNesting(c, outer, inner, under \/ f.op = outer)

\* C13: for every formula built from atoms, TRUE, FALSE, And, Or and Not,
\* NNFTransformer.transform returns a formula equivalent to its input in
\* which Not is applied to atoms only, and transform of that output
\* returns it unchanged.
C13_NNFTransform ==
    (transformer = "nnf" /\ out_formula # << >>) =>
        /\ ~Returned.raised
        /\ is_valid_iff(Returned.f, in_formula)
        /\ NotOnAtomsOnly(Returned.f)
        /\ transform("nnf", Returned.f) = { [raised |-> FALSE, f |-> Returned.f] }

-----------------------------------------------------------------------------
\* C14: when its loop stops, CNFTransformer.transform returns a formula
\* with no And under an Or, DNFTransformer.transform one with no Or under
\* an And, and the output is equivalent to the input.
C14_CNFDNFTransform ==
    (transformer \in {"cnf", "dnf"} /\ out_formula # << >>) =>
        /\ ~Returned.raised
        /\ is_valid_iff(Returned.f, in_formula)
        /\ transformer = "cnf" => NoNesting(Returned.f, "or", "and", FALSE)
        /\ transformer = "dnf" => NoNesting(Returned.f, "and", "or", FALSE)

-----------------------------------------------------------------------------
\* what the last propagate_real_intervals_cnf call returned or raised
Propagated == rip_output[1]

\* C15: propagate_real_intervals_cnf returns a formula equivalent to its
\* CNF input for every input, and whenever it returns FALSE the input is
\* unsatisfiable.
C15_PropagationEquivalent ==
    rip_output # << >> =>
        /\ Propagated.raised = ""
        /\ lra_is_valid_iff(Propagated.f, rip_input)
        /\ Propagated.f = shortcuts_FALSE => ~lra_satisfiable(rip_input)

-----------------------------------------------------------------------------
\* two unit clauses of the input bound the same term by constants and
\* cannot hold together
ContradictoryUnits ==
    /\ rip_input.op = "and"
    /\ \E u \in rip_input.args : \E v \in rip_input.args :
          /\ u.op = "lit" /\ v.op = "lit"
          /\ \E term \in {RealSymbol("x"), RealSymbol("y")} :
                /\ {u.lit.left, u.lit.right} \ Constants = {term}
                /\ {v.lit.left, v.lit.right} \ Constants = {term}
          /\ ~lra_satisfiable(shortcuts_And({u, v}))

\* C16: interval propagation of a CNF whose unit clauses bound the same
\* expression contradictorily (such as x >= 1 and x <= 0) returns FALSE.
C16_ContradictionIsFalse ==
    (rip_output # << >> /\ ContradictoryUnits) =>
        /\ Propagated.raised = ""
        /\ Propagated.f = shortcuts_FALSE

\* what maximize_relaxation returned
Optimized == optima # << >>

\* C17: maximize_relaxation of the polyhedron optimizer, called directly or
\* through the hybrid optimizer, returns supported = TRUE when the DNF has
\* exactly one term and supported = FALSE when it has none or several,
\* whatever the terms contain.
C17_SupportedIffOneTerm ==
    Optimized => (optima[1].supported <=> Len(dnf_terms) = 1)

\* a DNF of one term with a solution was optimized and reported as supported
C17_Witness ==
    /\ Optimized
    /\ Len(dnf_terms) = 1
    /\ optima[1].solutions # {}
    /\ optima[1].supported

\* the last create_dump_location call asked for a name an earlier call on
\* the same handler asked for
DuplicateRequested ==
    /\ requested # << >>
    /\ \E i \in 1..(Len(requested) - 1) : requested[i] = requested[Len(requested)]

\* C18: on either dump location handler, create_dump_location(name) raises
\* when the handler was already asked to create that name, and then leaves
\* the handler's locations as they were; the first creation of a name does
\* not raise.
C18_DuplicateRejected ==
    requested # << >> =>
        /\ create_result[1].raised <=> DuplicateRequested
        /\ create_result[1].raised => dump_locations = create_result[1].before

\* the same statement for the directory handler alone
DirectoryRejectsDuplicate ==
    (handler = "DirectoryLocationHandler" /\ requested # << >>) =>
        /\ create_result[1].raised <=> DuplicateRequested
        /\ create_result[1].raised => dump_locations = create_result[1].before

\* stats was read after process returned
StatsRead == qe_state = "returned" /\ qe_stats # << >>

\* C19: after process has consumed the bundles of the trace iterator,
\* however many, none included, reading stats does not raise and reports
\* the number of bundles consumed as number_of_traces.
C19_StatsReportsTraces ==
    StatsRead => /\ ~qe_stats[1].raised
                 /\ qe_stats[1].number_of_traces = Len(emitted)

\* the same statement for an iterator that yielded at least one bundle
StatsAfterSomeBundle ==
    (StatsRead /\ emitted # << >>) =>
        /\ ~qe_stats[1].raised
        /\ qe_stats[1].number_of_traces = Len(emitted)

\* stats was read after process consumed two bundles or more
StatsAfterTwoBundles == StatsRead /\ Len(emitted) >= 2

\* pysmt_conjunction_to_inequalities was called
Converted == inequalities_out # << >>

\* the literals of the conjunction handed in
LiteralsIn ==
    IF conjunction_in.op = "lit" THEN { conjunction_in.lit }
    ELSE { a.lit : a \in conjunction_in.args }

\* a literal with a constant on exactly one side
OneSideConstant(l) == is_constant(l.left) # is_constant(l.right)

\* the symbol of the negation of an inequality
complementary(symbol) ==
    CASE symbol = "<" -> ">="
      [] symbol = "<=" -> ">"
      [] symbol = ">" -> "<="
      [] symbol = ">=" -> "<"

\* the Inequality a literal stands for: the sum on the left, the constant on
\* the right, the symbol turned for a constant on the left and made
\* complementary for a negated literal
Meant(l) ==
    LET e == IF is_constant(l.right) THEN l.left ELSE l.right
        c == IF is_constant(l.right) THEN l.right.value ELSE l.left.value
        written == IF l.rel = "lt" THEN "<" ELSE "<="
        plain == IF is_constant(l.right) THEN written ELSE turned(written)
    IN  Inequality(pysmt_to_summands(e).summands,
                   IF l.negated THEN complementary(plain) ELSE plain, c)

\* C20: for a conjunction of literals that each have a constant on one
\* side, pysmt_conjunction_to_inequalities returns, without raising, the
\* inequalities its literals stand for (the sum on the left, the constant on
\* the right, the symbol turned for a constant on the left, complementary
\* for a negated literal, both for both), one inequality per distinct
\* literal.
C20_ConjunctionToInequalities ==
    (Converted /\ \A l \in LiteralsIn : OneSideConstant(l)) =>
        /\ inequalities_out[1].raised = ""
        /\ inequalities_out[1].inequalities = { Meant(l) : l \in LiteralsIn }
        /\ Cardinality(inequalities_out[1].inequalities) = Cardinality(LiteralsIn)

\* what does hold: whenever the call returns, it returns the inequalities
\* its literals stand for
ReturnedInequalitiesAreMeant ==
    (Converted /\ (\A l \in LiteralsIn : OneSideConstant(l))
               /\ inequalities_out[1].raised = "") =>
        inequalities_out[1].inequalities = { Meant(l) : l \in LiteralsIn }

\* what does hold: a conjunction of two literals or more is converted
\* without raising
TwoLiteralsDoNotRaise ==
    (Converted /\ (\A l \in LiteralsIn : OneSideConstant(l))
               /\ Cardinality(LiteralsIn) >= 2) =>
        inequalities_out[1].raised = ""

\* a conjunction of one negated literal was handed in and the call raised
SingleNegatedLiteralRaised ==
    /\ Converted
    /\ conjunction_in.op = "lit"
    /\ conjunction_in.lit.negated
    /\ OneSideConstant(conjunction_in.lit)
    /\ inequalities_out[1].raised = "AssertionError"

\* two distinct literals were converted into one inequality
TwoLiteralsOneInequality ==
    /\ Converted
    /\ \A l \in LiteralsIn : OneSideConstant(l)
    /\ inequalities_out[1].raised = ""
    /\ Cardinality(LiteralsIn) = 2
    /\ Cardinality(inequalities_out[1].inequalities) = 1

\* Sum.from_string(str(s)) was evaluated
SumParsed == round_trip # << >> /\ round_trip[1].of = "Sum"

\* Inequality.from_string(str(i)) was evaluated
InequalityParsed == round_trip # << >> /\ round_trip[1].of = "Inequality"

\* C21: parsing the printed text of a sum gives a sum equal to it, the
\* empty sum and sums with non-integer coefficients included, and parsing
\* the printed text of an inequality gives an inequality equal to it.
C21_PrintParseIdentity ==
    /\ SumParsed =>
          /\ round_trip[1].parsed.raised = ""
          /\ Sum_eq(round_trip[1].parsed.summands, lra_object[1].left)
    /\ InequalityParsed =>
          /\ round_trip[1].parsed.raised = ""
          /\ Inequality_eq(round_trip[1].parsed.inequality, lra_object[1])

\* every number of the sum or inequality printed is an integer
IntegersOnly ==
    /\ \A i \in DOMAIN lra_object[1].left : lra_object[1].left[i].coefficient.den = 1
    /\ InequalityParsed => lra_object[1].right.den = 1

\* what does hold: the round trip is the identity on sums and inequalities
\* whose coefficients and right-hand side are integers
IntegerRoundTrip ==
    (round_trip # << >> /\ IntegersOnly) =>
        /\ round_trip[1].parsed.raised = ""
        /\ SumParsed => Sum_eq(round_trip[1].parsed.summands, lra_object[1].left)
        /\ InequalityParsed =>
              Inequality_eq(round_trip[1].parsed.inequality, lra_object[1])

\* a sum of two summands with integer coefficients was parsed back
IntegerSumParsed ==
    SumParsed /\ IntegersOnly /\ Len(lra_object[1].left) = 2

\* a list of depths that never decreases
NonDecreasing(list) ==
    \A i \in 1..(Len(list) - 1) : list[i] <= list[i + 1]

\* the resets of clock c along a path: depth j once for every edge of the
\* j-th transition that resets c
RECURSIVE ResetsAlong(_, _, _, _)
ResetsAlong(sys, p, j, c) ==
    IF j > Len(p) THEN << >>
    ELSE [i \in 1..Cardinality({ edge \in edges(sys, p[j]) : c \in edge.resets }) |-> j]
         \o ResetsAlong(sys, p, j + 1, c)

\* C22: every list of clock_resets is non-decreasing; the truncation that
\* the next call of __next__ performs for the depth d it pops leaves no
\* entry >= d; and after a bundle the lists hold the resets along the path
\* of that bundle and nothing of any branch explored before.
C22_ResetsMonotone ==
    /\ \A c \in Clocks : NonDecreasing(clock_resets[c])
    /\ (outcome \in {"iter", "bundle"} /\ transition_stack # << >>) =>
          LET d == stack_pop(transition_stack).top.depth
          IN  \A c \in Clocks :
                 \A i \in DOMAIN copy_clock_resets(clock_resets, d)[c] :
                    copy_clock_resets(clock_resets, d)[c][i] < d
    /\ outcome = "bundle" =>
          \A c \in Clocks : clock_resets[c] = ResetsAlong(system, LastPath, 1, c)

\* a bundle was returned after backtracking to a depth at which the branch
\* explored before had recorded a reset
C22_Witness ==
    /\ outcome = "bundle"
    /\ Len(emitted) >= 2
    /\ LastDepth <= emitted[Len(emitted) - 1].depth
    /\ \E c \in Clocks :
          \E j \in LastDepth..emitted[Len(emitted) - 1].depth :
             j \in Range(ResetsAlong(system, emitted[Len(emitted) - 1].path, 1, c))

\* a bundle's result was post-processed and added to the set
PostProcessed == accumulated # << >> /\ accumulated[1].raised = ""

\* C23: the formula added to the accumulated set for a bundle is what a CNF
\* transform, then interval propagation, then a second CNF transform make
\* of the oracle's result.
C23_CnfRipCnf ==
    PostProcessed =>
        accumulated[1].formulas \subseteq
            { r.f : r \in { o \in post_process_cnf_again(oracle_result[1]) :
                            o.raised = "" } }

\* what does hold: the formula added is what the CNF transform followed by
\* interval propagation make of the oracle's result, and it is equivalent
\* to what a second CNF transform would give
AddedIsPropagated ==
    PostProcessed =>
        /\ accumulated[1].formulas \subseteq
              UNION { { r.f : r \in propagate_real_intervals_cnf(as_lra(c.f)) } :
                      c \in transform("cnf", oracle_result[1]) }
        /\ \A f \in accumulated[1].formulas :
              \A o \in post_process_cnf_again(oracle_result[1]) :
                 o.raised = "" => lra_is_valid_iff(f, o.f)

\* the literal sets of the top-level clauses (outer = "and", inner = "or")
\* or terms (outer = "or", inner = "and") of a formula
TopLevelSets(f, outer, inner) ==
    IF f.op = outer THEN literal_sets(args_of(f), inner)
    ELSE literal_sets({f}, inner)

\* no top-level literal set is a proper superset of another one
NothingAbsorbable(f, outer, inner) ==
    \A S \in TopLevelSets(f, outer, inner) :
        \A T \in TopLevelSets(f, outer, inner) : ~(T \subseteq S /\ T # S)

\* C24: in what CNFTransformer.transform returns no top-level clause is a
\* proper superset of another top-level clause, also for a conjunction with
\* a conjunction of clauses among its arguments; and in what
\* DNFTransformer.transform returns no term is a proper superset of another.
C24_Absorption ==
    /\ (transformer = "cnf" /\ out_formula # << >> /\ ~Returned.raised) =>
          NothingAbsorbable(Returned.f, "and", "or")
    /\ (transformer = "dnf" /\ out_formula # << >> /\ ~Returned.raised) =>
          NothingAbsorbable(Returned.f, "or", "and")

\* what does hold: the output is equivalent to the input and flat
NestedFlattened ==
    (out_formula # << >>) =>
        /\ ~Returned.raised
        /\ is_valid_iff(Returned.f, in_formula)
        /\ transformer = "cnf" => NoNesting(Returned.f, "and", "and", FALSE)
        /\ transformer = "dnf" => NoNesting(Returned.f, "or", "or", FALSE)

\* a call of tighten_upper has been made
UpperTightened == tighten_call # << >> /\ tighten_call.method = "tighten_upper"

\* C25 as stated: tighten_upper(b) replaces the stored upper bound when b's
\* value is strictly smaller, keeps it when b's value is larger, and on equal
\* values replaces it only when b is non-strict.
C25_ReplacesOnEqualWhenNonStrict ==
    UpperTightened =>
        LET b == tighten_call.upper
            old == tighten_call.before.upper
        IN /\ b.value < old.value => held_interval.upper = b
           /\ b.value > old.value => held_interval.upper = old
           /\ b.value = old.value =>
                 held_interval.upper = IF b.is_strict THEN old ELSE b

\* C25 as the code has it: on equal values the stored upper bound is replaced
\* only when b is strict; the lower bound is never touched.
C25_ReplacesOnEqualWhenStrict ==
    UpperTightened =>
        LET b == tighten_call.upper
            old == tighten_call.before.upper
        IN /\ b.value < old.value => held_interval.upper = b
           /\ b.value > old.value => held_interval.upper = old
           /\ b.value = old.value =>
                 held_interval.upper = IF b.is_strict THEN b ELSE old
           /\ held_interval.lower = tighten_call.before.lower

\* a strict bound has replaced a non-strict bound of the same value
C25_Witness ==
    /\ UpperTightened
    /\ tighten_call.upper.value = tighten_call.before.upper.value
    /\ tighten_call.upper.is_strict
    /\ ~tighten_call.before.upper.is_strict
    /\ held_interval.upper = tighten_call.upper


\* the vertices, the unbounded mask and the calls of output.add of the term
SampledVertices == get_polygon_surfaces(ext, ext_adjacency).vertices

SampledMask == get_unbounded_mask(get_polygon_surfaces(ext, ext_adjacency).rays)

Calls == sampled[1].calls

\* the pairs of vertex indices a line segment was sampled for
SampledEdges == { Calls[k].edge : k \in { m \in DOMAIN Calls : Len(Calls[m].edge) = 2 } }

\* the points offered for the line segment of an edge, in turn
EdgePoints(e) ==
    LET own == SelectSeq(Calls, LAMBDA call : call.edge = e)
    IN [k \in DOMAIN own |-> own[k].point]

\* the vertex with index i as offered: in units of 1 / step, mask added
Shifted(i) ==
    plus_mask([c \in 1..2 |-> SampledVertices[i].coords[c] * step(grid_points)],
              SampledMask)

\* C26 as stated: with grid_points = 2 every sampled line segment offers its
\* two end points and a point strictly between them.
C26_InteriorPointAtTwo ==
    (sampled # << >> /\ grid_points = 2) =>
        \A e \in SampledEdges :
            LET ps == EdgePoints(e)
            IN /\ \E k \in DOMAIN ps : ps[k] = Shifted(e[1])
               /\ \E k \in DOMAIN ps : ps[k] = Shifted(e[2])
               /\ \A c \in 1..2 :
                     (SampledMask[c] = 0 /\ Shifted(e[1])[c] # Shifted(e[2])[c]) =>
                        \E k \in DOMAIN ps :
                            \/ Shifted(e[1])[c] < ps[k][c] /\ ps[k][c] < Shifted(e[2])[c]
                            \/ Shifted(e[2])[c] < ps[k][c] /\ ps[k][c] < Shifted(e[1])[c]

\* C26 as the code has it: a sampled line segment offers grid_points points,
\* equally spaced from the one vertex to the other and shifted by the
\* unbounded mask; with grid_points = 2 these are the two vertices alone, and
\* with grid_points = 1 the first vertex alone.
C26_EquallySpaced ==
    (sampled # << >>) =>
        \A e \in SampledEdges :
            LET ps == EdgePoints(e)
            IN /\ Len(ps) = grid_points
               /\ ps[1] = Shifted(e[1])
               /\ grid_points > 1 => ps[grid_points] = Shifted(e[2])
               /\ grid_points = 2 => ps = << Shifted(e[1]), Shifted(e[2]) >>
               /\ \A c \in 1..2 :
                     IF SampledMask[c] = inf
                     THEN \A k \in DOMAIN ps : ps[k][c] = inf
                     ELSE \A k \in 1..(Len(ps) - 2) :
                            ps[k + 1][c] - ps[k][c] = ps[k + 2][c] - ps[k + 1][c]

\* with grid_points = 2 the line segment of two different vertices of a
\* bounded polyhedron has been sampled
C26_Witness ==
    /\ sampled # << >>
    /\ grid_points = 2
    /\ SampledMask = <<0, 0>>
    /\ \E e \in SampledEdges : Shifted(e[1]) # Shifted(e[2])


\* the index in ext of the vertex with index i of the filtered list
GeneratorIndex(i) ==
    CHOOSE k \in DOMAIN ext :
        /\ ext[k].type = "vertex"
        /\ Cardinality({ m \in 1..k : ext[m].type = "vertex" }) = i

\* the pairs of indices of non-dominated vertices that are adjacent rows
AdjacentPairs ==
    { e \in (DOMAIN SampledVertices) \X (DOMAIN SampledVertices) :
        /\ e[1] < e[2]
        /\ ~dominated_flags(SampledVertices, SampledMask)[e[1]]
        /\ ~dominated_flags(SampledVertices, SampledMask)[e[2]]
        /\ GeneratorIndex(e[2]) \in ext_adjacency[GeneratorIndex(e[1])] }

\* C30: a line segment is sampled for vertices[i] and vertices[j] exactly
\* when the two are non-dominated vertices and adjacent rows of the double
\* description, wherever the rays stand among the rows.
C30_SampledIffAdjacent ==
    (sampled # << >>) => SampledEdges = AdjacentPairs

\* no ray is reported before a vertex
VerticesFirst ==
    \A k \in DOMAIN ext : \A m \in DOMAIN ext :
        (ext[k].type = "vertex" /\ ext[m].type = "ray") => k < m

\* what does hold: with every vertex reported before every ray the sampled
\* line segments are those of the adjacent non-dominated vertices
SampledIffAdjacentVerticesFirst ==
    (sampled # << >> /\ VerticesFirst) => SampledEdges = AdjacentPairs

\* a ray stands before a vertex and line segments were sampled
RayBeforeVertexSampled ==
    sampled # << >> /\ ~VerticesFirst /\ SampledEdges # {}


\* the sum n / d of the coefficients that the summands from index k on have
\* for the objective with index idx, as the pair <<n, d>>
RECURSIVE CoefficientSum(_, _, _)
CoefficientSum(summands, idx, k) ==
    IF k > Len(summands) THEN <<0, 1>>
    ELSE LET rest == CoefficientSum(summands, idx, k + 1)
             c == summands[k].coefficient
         IN IF summands[k].var = RelaxationVariable(idx)
            THEN <<c.num * rest[2] + rest[1] * c.den, c.den * rest[2]>>
            ELSE rest

\* the Fraction q is the rational n / d, in lowest terms
IsRational(q, n, d) ==
    /\ q.den > 0
    /\ q.num * d = n * q.den
    /\ \A k \in 2..q.den : ~(q.num % k = 0 /\ q.den % k = 0)

\* C27: _to_A_b returns one row per inequality, in exact rationals: for <=
\* the coefficient vector and the right-hand side, for >= both negated, for
\* < and > the bound reduced by strict_epsilon in addition; the coefficients
\* of a variable occurring more than once in the sum are added.
C27_RowsOfAb ==
    (A_b # << >>) =>
        /\ DOMAIN A_b[1].A = DOMAIN to_A_b_args.inequalities
        /\ DOMAIN A_b[1].b = DOMAIN to_A_b_args.inequalities
        /\ \A i \in DOMAIN to_A_b_args.inequalities :
              LET inequality == to_A_b_args.inequalities[i]
                  sign == IF inequality.symbol \in {">=", ">"} THEN -1 ELSE 1
                  eps == to_A_b_args.strict_epsilon
                  c == inequality.right
              IN /\ \A idx \in 0..1 :
                       LET s == CoefficientSum(inequality.left, idx, 1)
                       IN IsRational(A_b[1].A[i][idx], sign * s[1], s[2])
                 /\ inequality.symbol \in {"<=", ">="} =>
                       IsRational(A_b[1].b[i], sign * c.num, c.den)
                 /\ inequality.symbol \in {"<", ">"} =>
                       IsRational(A_b[1].b[i],
                                  sign * c.num * eps.den - eps.num * c.den,
                                  c.den * eps.den)

\* a strict > inequality with a variable occurring twice has become a row
C27_Witness ==
    /\ A_b # << >>
    /\ \E i \in DOMAIN to_A_b_args.inequalities :
          LET inequality == to_A_b_args.inequalities[i]
          IN /\ inequality.symbol = ">"
             /\ inequality.right.num # 0
             /\ Len(inequality.left) = 2
             /\ inequality.left[1].var = inequality.left[2].var
             /\ inequality.left[1].coefficient.num # 0
             /\ inequality.left[2].coefficient.num # 0


\* the path p encoded from scratch: the outcome of encoding the initial state
\* with an empty reset map (index 0), and of encoding the j-th transition of
\* p with the reset map the step before has left
FromScratch(sys, k, p) ==
    LET F[j \in 0..Len(p)] ==
            IF j = 0
            THEN CHOOSE o \in encode_outcomes(sys, k, EmptyResets, 0, {},
                                              sys.initial_state) : TRUE
            ELSE CHOOSE o \in encode_outcomes(sys, k, F[j - 1].resets, j,
                                              edges(sys, p[j]),
                                              target(sys, p[j])) : TRUE
    IN  F

\* the bundle of the path p encoded from scratch
ScratchBundle(sys, k, p) ==
    snapshot(sys, k, StatesAlong(sys, p),
             [j \in 1..(Len(p) + 1) |-> FromScratch(sys, k, p)[j - 1].ineqs],
             [j \in 1..(Len(p) + 1) |-> FromScratch(sys, k, p)[j - 1].props],
             Len(p) + 1)

\* C28: the bundle returned for a path is the bundle that encoding the path
\* from scratch yields, whatever was explored before, and the reset map left
\* is the one of the path; the source of the popped transition is the state
\* the retained prefix holds at depth d - 1.
C28_BundleOfPathAlone ==
    (outcome = "bundle") =>
        /\ \A j \in 0..Len(LastPath) : ~FromScratch(system, depth, LastPath)[j].raised
        /\ LastBundle = ScratchBundle(system, depth, LastPath)
        /\ clock_resets = FromScratch(system, depth, LastPath)[Len(LastPath)].resets
        /\ symbolic_trace[LastDepth]
             = symbolic(system, source(system, LastPath[Len(LastPath)]))

\* a bundle was returned after backtracking from a branch that had reset a
\* clock below the popped depth
C28_Witness ==
    /\ outcome = "bundle"
    /\ Len(emitted) >= 2
    /\ ~IsPrefix(emitted[Len(emitted) - 1].path, LastPath)
    /\ \E c \in Clocks :
          \E i \in DOMAIN FromScratch(system, depth, emitted[Len(emitted) - 1].path)
                              [Len(emitted[Len(emitted) - 1].path)].resets[c] :
              FromScratch(system, depth, emitted[Len(emitted) - 1].path)
                  [Len(emitted[Len(emitted) - 1].path)].resets[c][i] >= LastDepth


\* the safety-property encodings of the state the path p ends in, at the
\* depth of that state
EncodingsAt(sys, k, p) == FromScratch(sys, k, p)[Len(p)].props

\* the iterator has returned all its bundles and no call has raised
Exhausted == outcome = "stop" /\ ~errored

\* the encoding f of the state a path of n transitions ends in stands at
\* depth n in the property_formulas of the i-th bundle returned
InEmittedBundle(f, n, i) ==
    LET b == ScratchBundle(system, depth, emitted[i].path)
    IN  n + 1 <= Len(b.property_formulas) /\ f \in b.property_formulas[n + 1]

\* C29: once the iterator is exhausted, every safety-property encoding of
\* every state reached by a path of 0..k transitions stands, at the depth of
\* that state, in the property_formulas of a bundle that was returned; the
\* initial state included, also for k = 0 and for an initial state without
\* outgoing transitions.
C29_PropertiesOfEveryState ==
    Exhausted =>
        \A p \in {<< >>} \cup AllPaths(system, depth) :
            \A f \in EncodingsAt(system, depth, p) :
                \E i \in DOMAIN emitted :
                    /\ IsPrefix(p, emitted[i].path)
                    /\ InEmittedBundle(f, Len(p), i)

\* the same statement for an iterator that returned at least one bundle
PropertiesAfterSomeBundle ==
    (Exhausted /\ emitted # << >>) =>
        \A p \in {<< >>} \cup AllPaths(system, depth) :
            \A f \in EncodingsAt(system, depth, p) :
                \E i \in DOMAIN emitted :
                    /\ IsPrefix(p, emitted[i].path)
                    /\ InEmittedBundle(f, Len(p), i)

\* the initial state has a safety property encoded and no bundle was returned
NoBundleForInitialState ==
    Exhausted /\ emitted = << >> /\ EncodingsAt(system, depth, << >>) # {}

====
